---------------------------- MODULE Spec2Model ----------------------------
(***************************************************************************)
(* Model of the FMB dump-sheet rule validation engine of                   *)
(* src/src/utils/fileParser.ts, and of the upload component FMBValidator   *)
(* that runs it through parseFile.                                         *)
(*                                                                         *)
(* A JavaScript string is a sequence of characters, each character a       *)
(* one-character TLA+ string.  A cell of a sheet is a record               *)
(*   [t |-> "absent" | "num" | "str", n |-> Int, s |-> string]             *)
(* (undefined/null, a number, a string).  A sheet is a record              *)
(*   [name |-> string, data |-> Seq(Seq(cell)), headers |-> Seq(cell)]     *)
(* where data[1] is the header row (JavaScript data[0]).  Array indexes    *)
(* in operators that mirror the code are the code's 0-based indexes.       *)
(***************************************************************************)
EXTENDS Integers, Sequences, FiniteSets, TLC

VARIABLES
  sheets,   \* the SheetData[] handed to validateFMBDumpSheet
  calls,    \* number of validateFMBDumpSheet calls made on the document
  outcome,  \* "none" | "returned" | "raised": how the last call ended
  errors,   \* the ValidationError[] returned by the last call
  summary,  \* the ValidationSummary returned by the last call
  prev,     \* the errors and summary returned by the call before the last
  uploadState, \* state: the FileUploadState of the FMBValidator component
  pending   \* the files whose parseFile promise is not settled yet

vars == << sheets, calls, outcome, errors, summary, prev, uploadState, pending >>

-----------------------------------------------------------------------------
(* String literals of the source, character by character.                  *)

\* the sheet names and the pseudo-sheet of the document-level errors, as strings written character by character
Sheet ==
  [
    Designation_Mapping |-> << "D", "e", "s", "i", "g", "n", "a", "t", "i", "o", "n", " ", "M", "a", "p", "p", "i", "n", "g" >>,
    Survey_Master |-> << "S", "u", "r", "v", "e", "y", " ", "M", "a", "s", "t", "e", "r" >>,
    Question_Master |-> << "Q", "u", "e", "s", "t", "i", "o", "n", " ", "M", "a", "s", "t", "e", "r" >>,
    Access_Sheet |-> << "A", "c", "c", "e", "s", "s", " ", "S", "h", "e", "e", "t" >>,
    File_Structure |-> << "F", "i", "l", "e", " ", "S", "t", "r", "u", "c", "t", "u", "r", "e" >>,
    Sheet1 |-> << "S", "h", "e", "e", "t", "1" >> ]

\* the field labels of the errors that are not about a column, as strings written character by character
Field ==
  [
    Sheet_Count |-> << "S", "h", "e", "e", "t", " ", "C", "o", "u", "n", "t" >>,
    Required_Sheet |-> << "R", "e", "q", "u", "i", "r", "e", "d", " ", "S", "h", "e", "e", "t" >>,
    Unexpected_Sheet |-> << "U", "n", "e", "x", "p", "e", "c", "t", "e", "d", " ", "S", "h", "e", "e", "t" >>,
    Sheet_Data |-> << "S", "h", "e", "e", "t", " ", "D", "a", "t", "a" >>,
    Headers |-> << "H", "e", "a", "d", "e", "r", "s" >>,
    Column_Count |-> << "C", "o", "l", "u", "m", "n", " ", "C", "o", "u", "n", "t" >>,
    Required_Columns |-> << "R", "e", "q", "u", "i", "r", "e", "d", " ", "C", "o", "l", "u", "m", "n", "s" >>,
    Required_Column |-> << "R", "e", "q", "u", "i", "r", "e", "d", " ", "C", "o", "l", "u", "m", "n" >> ]

\* the column names of the four rule sets, as strings written character by character
Column ==
  [
    State |-> << "S", "t", "a", "t", "e" >>,
    Medium |-> << "M", "e", "d", "i", "u", "m" >>,
    Medium_in_english |-> << "M", "e", "d", "i", "u", "m", "_", "i", "n", "_", "e", "n", "g", "l", "i", "s", "h" >>,
    List_of_Designations |-> << "L", "i", "s", "t", " ", "o", "f", " ", "D", "e", "s", "i", "g", "n", "a", "t", "i", "o", "n", "s" >>,
    Hierarchical_Level |-> << "H", "i", "e", "r", "a", "r", "c", "h", "i", "c", "a", "l", " ", "L", "e", "v", "e", "l" >>,
    Survey_ID |-> << "S", "u", "r", "v", "e", "y", " ", "I", "D" >>,
    Survey_Name |-> << "S", "u", "r", "v", "e", "y", " ", "N", "a", "m", "e" >>,
    Survey_Description |-> << "S", "u", "r", "v", "e", "y", " ", "D", "e", "s", "c", "r", "i", "p", "t", "i", "o", "n" >>,
    Available_mediums |-> << "A", "v", "a", "i", "l", "a", "b", "l", "e", "_", "m", "e", "d", "i", "u", "m", "s" >>,
    Hierarchical_Access_Level |-> << "H", "i", "e", "r", "a", "r", "c", "h", "i", "c", "a", "l", " ", "A", "c", "c", "e", "s", "s", " ", "L", "e", "v", "e", "l" >>,
    In_School |-> << "I", "n", " ", "S", "c", "h", "o", "o", "l" >>,
    Accept_multiple_Entries |-> << "A", "c", "c", "e", "p", "t", " ", "m", "u", "l", "t", "i", "p", "l", "e", " ", "E", "n", "t", "r", "i", "e", "s" >>,
    Launch_Date |-> << "L", "a", "u", "n", "c", "h", " ", "D", "a", "t", "e" >>,
    Close_Date |-> << "C", "l", "o", "s", "e", " ", "D", "a", "t", "e" >>,
    Mode |-> << "M", "o", "d", "e" >>,
    Visible_on_report_bot |-> << "V", "i", "s", "i", "b", "l", "e", "_", "o", "n", "_", "r", "e", "p", "o", "r", "t", "_", "b", "o", "t" >>,
    Is_Active_ |-> << "I", "s", " ", "A", "c", "t", "i", "v", "e", "?" >>,
    Download_response |-> << "D", "o", "w", "n", "l", "o", "a", "d", "_", "r", "e", "s", "p", "o", "n", "s", "e" >>,
    Geo_Fencing |-> << "G", "e", "o", " ", "F", "e", "n", "c", "i", "n", "g" >>,
    Geo_Tagging |-> << "G", "e", "o", " ", "T", "a", "g", "g", "i", "n", "g" >>,
    Test_Survey |-> << "T", "e", "s", "t", " ", "S", "u", "r", "v", "e", "y" >>,
    Question_ID |-> << "Q", "u", "e", "s", "t", "i", "o", "n", "_", "I", "D" >>,
    Question_Type |-> << "Q", "u", "e", "s", "t", "i", "o", "n", " ", "T", "y", "p", "e" >>,
    IsDynamic |-> << "I", "s", "D", "y", "n", "a", "m", "i", "c" >>,
    Question_Description_Optional |-> << "Q", "u", "e", "s", "t", "i", "o", "n", "_", "D", "e", "s", "c", "r", "i", "p", "t", "i", "o", "n", "_", "O", "p", "t", "i", "o", "n", "a", "l" >>,
    Max_Value |-> << "M", "a", "x", "_", "V", "a", "l", "u", "e" >>,
    Min_Value |-> << "M", "i", "n", "_", "V", "a", "l", "u", "e" >>,
    Is_Mandatory |-> << "I", "s", " ", "M", "a", "n", "d", "a", "t", "o", "r", "y" >>,
    Table_Header_value |-> << "T", "a", "b", "l", "e", "_", "H", "e", "a", "d", "e", "r", "_", "v", "a", "l", "u", "e" >>,
    Question_Media_Type |-> << "Q", "u", "e", "s", "t", "i", "o", "n", "_", "M", "e", "d", "i", "a", "_", "T", "y", "p", "e" >>,
    Correct_Answer_Optional |-> << "C", "o", "r", "r", "e", "c", "t", "_", "A", "n", "s", "w", "e", "r", "_", "O", "p", "t", "i", "o", "n", "a", "l" >>,
    Children_Questions |-> << "C", "h", "i", "l", "d", "r", "e", "n", " ", "Q", "u", "e", "s", "t", "i", "o", "n", "s" >>,
    Designation |-> << "D", "e", "s", "i", "g", "n", "a", "t", "i", "o", "n" >>,
    Bot_ID |-> << "B", "o", "t", " ", "I", "D" >>,
    Name |-> << "N", "a", "m", "e" >>,
    User_ID |-> << "U", "s", "e", "r", " ", "I", "D" >>,
    Status |-> << "S", "t", "a", "t", "u", "s" >>,
    Mobile |-> << "M", "o", "b", "i", "l", "e" >>,
    Email |-> << "E", "m", "a", "i", "l" >> ]

\* the cell values the rule sets compare with, as strings written character by character
Value ==
  [
    Yes |-> << "Y", "e", "s" >>,
    No |-> << "N", "o" >>,
    New_Data |-> << "N", "e", "w", " ", "D", "a", "t", "a" >>,
    Correction |-> << "C", "o", "r", "r", "e", "c", "t", "i", "o", "n" >>,
    delete_data |-> << "d", "e", "l", "e", "t", "e", " ", "d", "a", "t", "a" >>,
    Delete_Data |-> << "D", "e", "l", "e", "t", "e", " ", "D", "a", "t", "a" >>,
    None |-> << "N", "o", "n", "e" >>,
    Active |-> << "A", "c", "t", "i", "v", "e" >>,
    Inactive |-> << "I", "n", "a", "c", "t", "i", "v", "e" >>,
    Multiple_Choice_Single_Select |-> << "M", "u", "l", "t", "i", "p", "l", "e", " ", "C", "h", "o", "i", "c", "e", " ", "S", "i", "n", "g", "l", "e", " ", "S", "e", "l", "e", "c", "t" >>,
    Multiple_Choice_Multi_Select |-> << "M", "u", "l", "t", "i", "p", "l", "e", " ", "C", "h", "o", "i", "c", "e", " ", "M", "u", "l", "t", "i", " ", "S", "e", "l", "e", "c", "t" >>,
    Drop_Down |-> << "D", "r", "o", "p", " ", "D", "o", "w", "n" >>,
    Text_Response |-> << "T", "e", "x", "t", " ", "R", "e", "s", "p", "o", "n", "s", "e" >>,
    Tabular_Text_Input |-> << "T", "a", "b", "u", "l", "a", "r", " ", "T", "e", "x", "t", " ", "I", "n", "p", "u", "t" >>,
    Tabular_Drop_Down |-> << "T", "a", "b", "u", "l", "a", "r", " ", "D", "r", "o", "p", " ", "D", "o", "w", "n" >>,
    Tabular_Check_Box |-> << "T", "a", "b", "u", "l", "a", "r", " ", "C", "h", "e", "c", "k", " ", "B", "o", "x" >>,
    Image_Upload |-> << "I", "m", "a", "g", "e", " ", "U", "p", "l", "o", "a", "d" >>,
    Video_Upload |-> << "V", "i", "d", "e", "o", " ", "U", "p", "l", "o", "a", "d" >>,
    Likert_Scale |-> << "L", "i", "k", "e", "r", "t", " ", "S", "c", "a", "l", "e" >>,
    Calendar |-> << "C", "a", "l", "e", "n", "d", "a", "r" >> ]

-----------------------------------------------------------------------------
(* JavaScript values and built-ins used by the engine.                      *)

\* undefined / null / an array hole
Absent == [t |-> "absent", n |-> 0, s |-> << >>]

\* a number cell
Num(k) == [t |-> "num", n |-> k, s |-> << >>]

\* a string cell
Str(x) == [t |-> "str", n |-> 0, s |-> x]

\* characters matched by \s and removed by String.prototype.trim
WhiteSpace == {" ", "\t", "\n"}

\* characters matched by [A-Za-z]
Letters ==
  {"A","B","C","D","E","F","G","H","I","J","K","L","M","N","O","P","Q","R",
   "S","T","U","V","W","X","Y","Z","a","b","c","d","e","f","g","h","i","j",
   "k","l","m","n","o","p","q","r","s","t","u","v","w","x","y","z"}

\* characters matched by \d, in value order
DigitChars == << "0", "1", "2", "3", "4", "5", "6", "7", "8", "9" >>

Digits == { DigitChars[i] : i \in 1..10 }

\* characters of the three script ranges \u0900-\u097F, \u0A80-\u0AFF and
\* \u0980-\u09FF of the designation and name patterns
\* (one representative of each range, written by its code point)
ScriptChars == {"U+0905", "U+0A85", "U+0985"}

\* String.prototype.startsWith(' ')
startsWithSpace(s) == Len(s) > 0 /\ s[1] = " "

\* String.prototype.endsWith(' ')
endsWithSpace(s) == Len(s) > 0 /\ s[Len(s)] = " "

RECURSIVE trimStart(_)
trimStart(s) ==
  IF Len(s) > 0 /\ s[1] \in WhiteSpace THEN trimStart(Tail(s)) ELSE s

RECURSIVE trimEnd(_)
trimEnd(s) ==
  IF Len(s) > 0 /\ s[Len(s)] \in WhiteSpace
  THEN trimEnd(SubSeq(s, 1, Len(s) - 1)) ELSE s

\* String.prototype.trim
trim(s) == trimEnd(trimStart(s))

RECURSIVE NatToString(_)
NatToString(k) ==
  IF k < 10 THEN << DigitChars[k + 1] >>
  ELSE NatToString(k \div 10) \o << DigitChars[(k % 10) + 1] >>

\* Number.prototype.toString / String.prototype.toString of a present cell
toString(c) ==
  IF c.t = "num"
  THEN (IF c.n < 0 THEN << "-" >> \o NatToString(-c.n) ELSE NatToString(c.n))
  ELSE c.s

\* JavaScript truthiness: undefined, null, 0 and '' are falsy
truthy(c) ==
  CASE c.t = "absent" -> FALSE
    [] c.t = "num" -> c.n # 0
    [] OTHER -> Len(c.s) > 0

\* row[i] with a 0-based index: out of range (also -1) gives undefined
At(row, i) == IF i >= 0 /\ i < Len(row) THEN row[i + 1] ELSE Absent

\* Array.prototype.indexOf on the header row: 0-based index of the first
\* header cell strictly equal to the string col, -1 when there is none
indexOf(headers, col) ==
  IF \E i \in 1..Len(headers) : headers[i] = Str(col)
  THEN (CHOOSE i \in 1..Len(headers) :
          /\ headers[i] = Str(col)
          /\ \A j \in 1..(i - 1) : headers[j] # Str(col)) - 1
  ELSE -1

\* Array.prototype.includes on the header row
includes(headers, col) == \E i \in 1..Len(headers) : headers[i] = Str(col)

\* row[i]?.toString().trim() || ''
cellText(row, i) ==
  LET c == At(row, i) IN IF c.t = "absent" THEN << >> ELSE trim(toString(c))

\* value.toString() raises a TypeError when value is undefined or null
toStringRaises(c) == c.t = "absent"

\* a template literal: fixed text p with interpolated numbers n and strings s
Tmpl(p, n, s) == [p |-> p, n |-> n, s |-> s]

\* a ValidationError object
ValidationError(id, sheet, row, column, field, message, severity, rule) ==
  [id |-> id, sheet |-> sheet, row |-> row, column |-> column,
   field |-> field, message |-> message, severity |-> severity, rule |-> rule]

\* [cond ? v : nothing]: the push of v guarded by cond
PushIf(cond, v) == IF cond THEN << v >> ELSE << >>

-----------------------------------------------------------------------------
(* validateFMBDumpSheet: structure checks, per-sheet dispatch, summary.     *)

RECURSIVE ConcatAll(_)
\* errors.push(...) over the elements of a forEach, in order
ConcatAll(ss) ==
  IF Len(ss) = 0 THEN << >> ELSE Head(ss) \o ConcatAll(Tail(ss))

expectedSheets ==
  << Sheet.Designation_Mapping, Sheet.Survey_Master, Sheet.Question_Master, Sheet.Access_Sheet >>

\* expectedSheets.includes(name)
isExpectedSheet(name) == \E i \in 1..Len(expectedSheets) : expectedSheets[i] = name

\* if (sheets.length !== 4) push SHEET_COUNT_001
sheetCountErrors(ss) ==
  PushIf(Len(ss) # 4,
    ValidationError(Tmpl("incorrect-sheet-count", << >>, << >>),
      Sheet.File_Structure, 0, Str(<< >>), Str(Field.Sheet_Count),
      Tmpl("File must contain exactly 4 sheets. Found ${sheets.length} sheets.",
           << Len(ss) >>, << >>),
      "error", "SHEET_COUNT_001"))

\* missingSheetErrors comparing the untrimmed sheet name
missingSheetErrors_untrimmed(ss) ==
  ConcatAll([k \in 1..Len(expectedSheets) |->
    LET expectedSheet == expectedSheets[k]
        found == \E i \in 1..Len(ss) : ss[i].name = expectedSheet
    IN PushIf(~found,
         ValidationError(Tmpl("missing-sheet-${expectedSheet}", << >>, << expectedSheet >>),
           Sheet.File_Structure, 0, Str(<< >>), Str(Field.Required_Sheet),
           Tmpl("Missing required sheet: ${expectedSheet}. Sheet names must be exact.",
                << >>, << expectedSheet >>),
           "error", "SHEET_STRUCTURE_001"))])

\* expectedSheets.forEach: push SHEET_STRUCTURE_001 when no sheet has the name
missingSheetErrors(ss) ==
  ConcatAll([k \in 1..Len(expectedSheets) |->
    LET expectedSheet == expectedSheets[k]
        found == \E i \in 1..Len(ss) : trim(ss[i].name) = expectedSheet
    IN PushIf(~found,
         ValidationError(Tmpl("missing-sheet-${expectedSheet}", << >>, << expectedSheet >>),
           Sheet.File_Structure, 0, Str(<< >>), Str(Field.Required_Sheet),
           Tmpl("Missing required sheet: ${expectedSheet}. Sheet names must be exact.",
                << >>, << expectedSheet >>),
           "error", "SHEET_STRUCTURE_001"))])

\* sheets.forEach: push SHEET_STRUCTURE_002 for a sheet whose name is not expected
unexpectedSheetErrors(ss) ==
  ConcatAll([i \in 1..Len(ss) |->
    PushIf(~isExpectedSheet(trim(ss[i].name)),
      ValidationError(Tmpl("unexpected-sheet-${sheet.name}", << >>, << ss[i].name >>),
        Sheet.File_Structure, 0, Str(<< >>), Str(Field.Unexpected_Sheet),
        Tmpl("Unexpected sheet: ${sheet.name}. Only these sheets are allowed: ...",
             << >>, << ss[i].name >>),
        "error", "SHEET_STRUCTURE_002"))])

-----------------------------------------------------------------------------
(* Regular expressions and number parsing.                                  *)

\* /^[A-Za-z\s]+$/.test(s)
matchesEnglishLetters(s) ==
  Len(s) > 0 /\ \A i \in 1..Len(s) : s[i] \in Letters \cup WhiteSpace

\* /^[A-Za-z0-9_\u0900-\u097F\u0A80-\u0AFF\u0980-\u09FF]+$/.test(s)
matchesAlphanumeric(s) ==
  Len(s) > 0 /\ \A i \in 1..Len(s) : s[i] \in Letters \cup Digits \cup {"_"} \cup ScriptChars

\* /\s/.test(s)
hasWhiteSpace(s) == \E i \in 1..Len(s) : s[i] \in WhiteSpace

\* s is a non-empty run of decimal digits
allDigits(s) == Len(s) > 0 /\ \A i \in 1..Len(s) : s[i] \in Digits

RECURSIVE DigitsToNat(_)
\* the value of a (possibly empty) run of decimal digits
DigitsToNat(s) ==
  IF Len(s) = 0 THEN 0
  ELSE DigitsToNat(SubSeq(s, 1, Len(s) - 1)) * 10
         + ((CHOOSE d \in 1..10 : DigitChars[d] = s[Len(s)]) - 1)

RECURSIVE Pow10(_)
Pow10(e) == IF e = 0 THEN 1 ELSE 10 * Pow10(e - 1)

\* a JavaScript number: NaN, or the decimal v / 10^e
NaN == [nan |-> TRUE, v |-> 0, e |-> 0]

Decimal(v, e) == [nan |-> FALSE, v |-> v, e |-> e]

\* Number(string): white space is trimmed, '' is 0, an optionally signed
\* decimal literal is its value, anything else NaN.  (Hexadecimal, exponent
\* and Infinity literals are not written with the characters of the model's
\* cells.)
StringToNumber(s) ==
  LET t == trim(s)
      signed == Len(t) > 0 /\ t[1] \in {"+", "-"}
      body == IF signed THEN Tail(t) ELSE t
      sign == IF signed /\ t[1] = "-" THEN -1 ELSE 1
      dots == { i \in 1..Len(body) : body[i] = "." }
  IN IF Len(t) = 0 THEN Decimal(0, 0)
     ELSE IF dots = {} THEN
       (IF allDigits(body) THEN Decimal(sign * DigitsToNat(body), 0) ELSE NaN)
     ELSE IF Cardinality(dots) = 1 THEN
       LET d == CHOOSE i \in dots : TRUE
           ip == SubSeq(body, 1, d - 1)
           fp == SubSeq(body, d + 1, Len(body))
       IN IF /\ Len(ip) + Len(fp) > 0
             /\ \A i \in 1..Len(ip) : ip[i] \in Digits
             /\ \A i \in 1..Len(fp) : fp[i] \in Digits
          THEN Decimal(sign * DigitsToNat(ip \o fp), Len(fp))
          ELSE NaN
     ELSE NaN

\* Number(value) of a present cell
Number(c) == IF c.t = "num" THEN Decimal(c.n, 0) ELSE StringToNumber(c.s)

\* Number.isInteger
isInteger(x) == ~x.nan /\ x.v % Pow10(x.e) = 0

\* the value of an integer x
IntegerValue(x) == x.v \div Pow10(x.e)

\* a <= b for two numbers that are not NaN
NumLeq(a, b) == a.v * Pow10(b.e) <= b.v * Pow10(a.e)

RECURSIVE SortedKeys(_)
\* Object.keys of an object whose keys are canonical array indexes:
\* ascending numeric order
SortedKeys(S) ==
  IF S = {} THEN << >>
  ELSE LET m == CHOOSE x \in S : \A y \in S : x <= y
       IN << m >> \o SortedKeys(S \ {m})

-----------------------------------------------------------------------------
(* The whitespace scan shared, copy for copy, by the four rule sets.        *)

\* row.forEach((cell, cellIndex) => ...): U-01 for a string cell that starts
\* or ends with ' '; prefix is the rule set's id prefix (DM-WS-, SM-WS-, ...)
whitespaceErrors(sheet, row, rowNum, prefix) ==
  ConcatAll([k \in 1..Len(row) |->
    LET cell == row[k]
        cellIndex == k - 1
    IN PushIf(cell.t = "str" /\ (startsWithSpace(cell.s) \/ endsWithSpace(cell.s)),
         ValidationError(Tmpl(prefix, << rowNum, cellIndex >>, << >>),
           sheet.name, rowNum, At(sheet.headers, cellIndex), At(sheet.headers, cellIndex),
           Tmpl("Cell contains leading or trailing whitespace", << >>, << >>),
           "error", "U-01"))])

-----------------------------------------------------------------------------
(* validateDesignationMappingSheet                                          *)

DM_requiredColumns ==
  << Column.State, Column.Medium, Column.Medium_in_english, Column.List_of_Designations, Column.Hierarchical_Level >>

\* dmHeaderErrors with the time of the call in the DM-00 message
dmHeaderErrors_timestamped(sheet, clk) ==
  LET Missing(col) == ~includes(sheet.headers, col)
      missingColumns == SelectSeq(DM_requiredColumns, Missing)
  IN PushIf(Len(sheet.headers) # 5,
       ValidationError(Tmpl("DM-COLCOUNT-${Date.now()}", << clk[1] >>, << >>),
         sheet.name, 1, Str(Field.Headers), Str(Field.Column_Count),
         Tmpl("Expected exactly 5 columns, found ${sheet.headers.length}",
              << Len(sheet.headers), clk[1] >>, << >>),
         "error", "DM-00"))
     \o
     PushIf(Len(missingColumns) > 0,
       ValidationError(Tmpl("DM-COLS-${Date.now()}", << clk[2] >>, << >>),
         sheet.name, 1, Str(Field.Headers), Str(Field.Required_Columns),
         Tmpl("Missing required columns: ${missingColumns.join(', ')}",
              << >>, missingColumns),
         "error", "DM-01"))

\* dmHeaderErrors with the column count checked only when no required column
\* is missing
dmHeaderErrors_countWhenMissing(sheet, clk) ==
  LET Missing(col) == ~includes(sheet.headers, col)
      missingColumns == SelectSeq(DM_requiredColumns, Missing)
  IN IF Len(missingColumns) > 0
     THEN << ValidationError(Tmpl("DM-COLS-${Date.now()}", << clk[2] >>, << >>),
               sheet.name, 1, Str(Field.Headers), Str(Field.Required_Columns),
               Tmpl("Missing required columns: ${missingColumns.join(', ')}",
                    << >>, missingColumns),
               "error", "DM-01") >>
     ELSE PushIf(Len(sheet.headers) # 5,
            ValidationError(Tmpl("DM-COLCOUNT-${Date.now()}", << clk[1] >>, << >>),
              sheet.name, 1, Str(Field.Headers), Str(Field.Column_Count),
              Tmpl("Expected exactly 5 columns, found ${sheet.headers.length}",
                   << Len(sheet.headers) >>, << >>),
              "error", "DM-00"))

\* the header checks DM-00 and DM-01; clk[1] and clk[2] are the two values
\* read from Date.now()
dmHeaderErrors(sheet, clk) ==
  LET Missing(col) == ~includes(sheet.headers, col)
      missingColumns == SelectSeq(DM_requiredColumns, Missing)
  IN PushIf(Len(sheet.headers) # 5,
       ValidationError(Tmpl("DM-COLCOUNT-${Date.now()}", << clk[1] >>, << >>),
         sheet.name, 1, Str(Field.Headers), Str(Field.Column_Count),
         Tmpl("Expected exactly 5 columns, found ${sheet.headers.length}",
              << Len(sheet.headers) >>, << >>),
         "error", "DM-00"))
     \o
     PushIf(Len(missingColumns) > 0,
       ValidationError(Tmpl("DM-COLS-${Date.now()}", << clk[2] >>, << >>),
         sheet.name, 1, Str(Field.Headers), Str(Field.Required_Columns),
         Tmpl("Missing required columns: ${missingColumns.join(', ')}",
              << >>, missingColumns),
         "error", "DM-01"))

\* a row-level error that carries the index of the data row as its row
rowError_zeroBased(idPrefix, sheet, rowNum, col, text, args, severity, rule) ==
  ValidationError(Tmpl(idPrefix, << rowNum >>, << >>), sheet.name, rowNum - 2,
    Str(col), Str(col), Tmpl(text, << >>, args), severity, rule)

\* a row-level error of a rule set: column and field are the same literal
rowError(idPrefix, sheet, rowNum, col, text, args, severity, rule) ==
  ValidationError(Tmpl(idPrefix, << rowNum >>, << >>), sheet.name, rowNum,
    Str(col), Str(col), Tmpl(text, << >>, args), severity, rule)

\* the field checks of one Designation Mapping data row (State .. DM-09)
dmFieldErrors(sheet, row, rowNum) ==
  LET state == At(row, indexOf(sheet.headers, Column.State))
      medium == At(row, indexOf(sheet.headers, Column.Medium))
      mediumEng == At(row, indexOf(sheet.headers, Column.Medium_in_english))
      designations == At(row, indexOf(sheet.headers, Column.List_of_Designations))
      hierarchicalLevel == At(row, indexOf(sheet.headers, Column.Hierarchical_Level))
      level == Number(hierarchicalLevel)
  IN (IF ~truthy(state)
      THEN << rowError("DM-STATE-", sheet, rowNum, Column.State,
                "State is mandatory", << >>, "error", "DM-02") >>
      ELSE PushIf(state.t # "str" \/ ~matchesEnglishLetters(state.s),
             rowError("DM-STATE-FORMAT-", sheet, rowNum, Column.State,
               "State must contain only English letters and spaces", << >>,
               "error", "DM-03")))
     \o
     PushIf(~truthy(medium),
       rowError("DM-MEDIUM-", sheet, rowNum, Column.Medium,
         "Medium is mandatory", << >>, "error", "DM-04"))
     \o
     PushIf(~truthy(mediumEng),
       rowError("DM-MEDIUMENG-", sheet, rowNum, Column.Medium_in_english,
         "Medium_in_english is mandatory", << >>, "error", "DM-05"))
     \o
     (IF ~truthy(designations)
      THEN << rowError("DM-DESIGNATIONS-", sheet, rowNum, Column.List_of_Designations,
                "List of Designations is mandatory", << >>, "error", "DM-06") >>
      ELSE PushIf(designations.t = "str" /\ ~matchesAlphanumeric(designations.s),
             rowError("DM-DESIGNATIONS-FORMAT-", sheet, rowNum, Column.List_of_Designations,
               "List of Designations must be alphanumeric with only underscore (_) as special character",
               << >>, "error", "DM-07")))
     \o
     (IF hierarchicalLevel.t = "absent" \/ hierarchicalLevel = Str(<< >>)
      THEN << rowError("DM-HIERARCHY-", sheet, rowNum, Column.Hierarchical_Level,
                "Hierarchical Level is mandatory", << >>, "error", "DM-08") >>
      ELSE PushIf(level.nan \/ level.v < 0 \/ ~isInteger(level),
             rowError("DM-HIERARCHY-FORMAT-", sheet, rowNum, Column.Hierarchical_Level,
               "Hierarchical Level must be a numeric value from 0 to positive numbers only",
               << >>, "error", "DM-09")))

\* the level of a row that is tracked for the duplicate check, -1 when the
\* row is not tracked
dmTrackedLevel(sheet, row) ==
  LET hierarchicalLevel == At(row, indexOf(sheet.headers, Column.Hierarchical_Level))
      level == Number(hierarchicalLevel)
  IN IF hierarchicalLevel.t = "absent" \/ hierarchicalLevel = Str(<< >>) THEN -1
     ELSE IF level.nan \/ level.v < 0 \/ ~isInteger(level) THEN -1
     ELSE IntegerValue(level)

RECURSIVE dmRows(_, _, _)
\* sheet.data.slice(1).forEach((row, index) => ...) from index on; acc is
\* [errors, hierarchicalLevels]
dmRows(sheet, index, acc) ==
  IF index + 2 > Len(sheet.data) THEN acc
  ELSE
    LET row == sheet.data[index + 2]
        rowNum == index + 2
        medium == At(row, indexOf(sheet.headers, Column.Medium))
        key == dmTrackedLevel(sheet, row)
        hl == acc.hierarchicalLevels
        entry == [level |-> key, medium |-> medium, count |-> 1]
    IN dmRows(sheet, index + 1,
         [errors |-> acc.errors
                       \o whitespaceErrors(sheet, row, rowNum, "DM-WS-")
                       \o dmFieldErrors(sheet, row, rowNum),
          hierarchicalLevels |->
            IF key < 0 THEN hl
            ELSE [x \in DOMAIN hl \cup {key} |->
                    IF x = key
                    THEN (IF key \in DOMAIN hl THEN hl[key] ELSE << >>) \o << entry >>
                    ELSE hl[x]]])

\* Object.keys(hierarchicalLevels).forEach: DM-10 and DM-11
dmLevelDuplicateErrors(sheet, hierarchicalLevels) ==
  LET keys == SortedKeys(DOMAIN hierarchicalLevels)
  IN ConcatAll([k \in 1..Len(keys) |->
       LET levelKey == keys[k]
           entries == hierarchicalLevels[levelKey]
       IN IF Len(entries) > 2
          THEN << ValidationError(Tmpl("DM-HIERARCHY-DUP-${levelKey}", << levelKey >>, << >>),
                    sheet.name, 0, Str(Column.Hierarchical_Level), Str(Column.Hierarchical_Level),
                    Tmpl("Hierarchical Level ${levelKey} appears more than twice",
                         << levelKey >>, << >>),
                    "error", "DM-10") >>
          ELSE PushIf(Len(entries) = 2 /\ entries[1].medium = entries[2].medium,
                 ValidationError(Tmpl("DM-HIERARCHY-SAME-MEDIUM-${levelKey}", << levelKey >>, << >>),
                   sheet.name, 0, Str(Column.Hierarchical_Level), Str(Column.Hierarchical_Level),
                   Tmpl("Hierarchical Level ${levelKey} has duplicate entries with same medium",
                        << levelKey >>, << >>),
                   "error", "DM-11"))])

\* validateDesignationMappingSheet reporting the level duplicates before the
\* errors of the rows
validateDesignationMappingSheet_duplicatesFirst(sheet, clk) ==
  LET scan == dmRows(sheet, 0,
                [errors |-> dmHeaderErrors(sheet, clk), hierarchicalLevels |-> << >>])
  IN dmLevelDuplicateErrors(sheet, scan.hierarchicalLevels) \o scan.errors

validateDesignationMappingSheet(sheet, clk) ==
  LET scan == dmRows(sheet, 0,
                [errors |-> dmHeaderErrors(sheet, clk), hierarchicalLevels |-> << >>])
  IN scan.errors \o dmLevelDuplicateErrors(sheet, scan.hierarchicalLevels)

-----------------------------------------------------------------------------
(* validateSurveyMasterSheet                                                *)

SM_requiredColumns ==
  << Column.Survey_ID, Column.Survey_Name, Column.Survey_Description, Column.Available_mediums,
     Column.Hierarchical_Access_Level, Column.In_School, Column.Accept_multiple_Entries,
     Column.Launch_Date, Column.Close_Date, Column.Mode, Column.Visible_on_report_bot, Column.Is_Active_,
     Column.Download_response, Column.Geo_Fencing, Column.Geo_Tagging, Column.Test_Survey >>

\* missingColumnErrors stopping at the first column the header lacks
missingColumnErrors_firstOnly(sheet, requiredColumns, rule) ==
  ConcatAll([k \in 1..Len(requiredColumns) |->
    LET col == requiredColumns[k]
    IN PushIf(/\ ~includes(sheet.headers, col)
              /\ \A j \in 1..(k - 1) : includes(sheet.headers, requiredColumns[j]),
         ValidationError(Tmpl("missing-col-${col}", << >>, << col >>),
           sheet.name, 1, Str(col), Str(Field.Required_Column),
           Tmpl("Missing required column: ${col}", << >>, << col >>),
           "error", rule))])

\* requiredColumns.forEach: one error per required column the header lacks
missingColumnErrors(sheet, requiredColumns, rule) ==
  ConcatAll([k \in 1..Len(requiredColumns) |->
    LET col == requiredColumns[k]
    IN PushIf(~includes(sheet.headers, col),
         ValidationError(Tmpl("missing-col-${col}", << >>, << col >>),
           sheet.name, 1, Str(col), Str(Field.Required_Column),
           Tmpl("Missing required column: ${col}", << >>, << col >>),
           "error", rule))])

\* /^[A-Za-z0-9_]+$/.test(s)
matchesIdentifier(s) ==
  Len(s) > 0 /\ \A i \in 1..Len(s) : s[i] \in Letters \cup Digits \cup {"_"}

\* s.split(/\s+/).length for a trimmed, non-empty s
wordCount(s) ==
  1 + Cardinality({ i \in 2..Len(s) : s[i] \in WhiteSpace /\ s[i - 1] \notin WhiteSpace })

\* /^\d{2}\/\d{2}\/\d{4} hh:mm:ss$/.test(s) for the fixed time of day tail
matchesDate(s, tail) ==
  /\ Len(s) = 19
  /\ \A i \in {1, 2, 4, 5, 7, 8, 9, 10} : s[i] \in Digits
  /\ s[3] = "/" /\ s[6] = "/"
  /\ SubSeq(s, 11, 19) = tail

\* ' 00:00:00'
LaunchTime == << " ", "0", "0", ":", "0", "0", ":", "0", "0" >>

\* ' 23:59:00'
CloseTime == << " ", "2", "3", ":", "5", "9", ":", "0", "0" >>

SM_validModes == << Value.New_Data, Value.Correction, Value.delete_data, Value.None >>

yesNoFields ==
  << Column.In_School, Column.Accept_multiple_Entries, Column.Visible_on_report_bot,
     Column.Is_Active_, Column.Download_response, Column.Geo_Tagging >>

\* list.includes(value) for a list of strings
inList(list, value) == \E i \in 1..Len(list) : list[i] = value

\* the word limit of Survey Description
MaxDescriptionWords == 60

\* smSurveyIdErrors with the duplicate test also in the format condition
smSurveyIdErrors_formatOnDuplicate(sheet, row, rowNumber, surveyIds) ==
  LET surveyIdIndex == indexOf(sheet.headers, Column.Survey_ID)
      surveyId == cellText(row, surveyIdIndex)
  IN IF surveyIdIndex < 0 THEN << >>
     ELSE IF Len(surveyId) = 0
     THEN << rowError("SM-SURVEYID-EMPTY-", sheet, rowNumber, Column.Survey_ID,
               "Survey ID is mandatory", << >>, "error", "SM-01") >>
     ELSE PushIf(surveyId \in surveyIds,
            rowError("duplicate-survey-id-", sheet, rowNumber, Column.Survey_ID,
              "Duplicate Survey ID: ${surveyId}", << surveyId >>, "error", "SM-02"))
          \o
          PushIf(~matchesIdentifier(surveyId) \/ hasWhiteSpace(surveyId)
                   \/ surveyId \in surveyIds,
            rowError("invalid-survey-id-format-", sheet, rowNumber, Column.Survey_ID,
              "Survey ID must be alphanumeric with underscore only, no spaces",
              << >>, "error", "SM-03"))

\* the Survey ID checks of one row; surveyIds is the set of ids seen so far
smSurveyIdErrors(sheet, row, rowNumber, surveyIds) ==
  LET surveyIdIndex == indexOf(sheet.headers, Column.Survey_ID)
      surveyId == cellText(row, surveyIdIndex)
  IN IF surveyIdIndex < 0 THEN << >>
     ELSE IF Len(surveyId) = 0
     THEN << rowError("SM-SURVEYID-EMPTY-", sheet, rowNumber, Column.Survey_ID,
               "Survey ID is mandatory", << >>, "error", "SM-01") >>
     ELSE PushIf(surveyId \in surveyIds,
            rowError("duplicate-survey-id-", sheet, rowNumber, Column.Survey_ID,
              "Duplicate Survey ID: ${surveyId}", << surveyId >>, "error", "SM-02"))
          \o
          PushIf(~matchesIdentifier(surveyId) \/ hasWhiteSpace(surveyId),
            rowError("invalid-survey-id-format-", sheet, rowNumber, Column.Survey_ID,
              "Survey ID must be alphanumeric with underscore only, no spaces",
              << >>, "error", "SM-03"))

\* smSurveyIdsAfter without surveyIds.add
smSurveyIdsAfter_forgotten(sheet, row, surveyIds) ==
  surveyIds

\* surveyIds after the row: the id is added when present and not yet seen
smSurveyIdsAfter(sheet, row, surveyIds) ==
  LET surveyIdIndex == indexOf(sheet.headers, Column.Survey_ID)
      surveyId == cellText(row, surveyIdIndex)
  IN IF surveyIdIndex >= 0 /\ Len(surveyId) > 0 /\ surveyId \notin surveyIds
     THEN surveyIds \cup {surveyId} ELSE surveyIds

\* the checks of one row after Survey ID (Survey Name .. Test Survey)
smFieldErrors(sheet, row, rowNumber) ==
  LET Has(col) == indexOf(sheet.headers, col) >= 0
      Val(col) == cellText(row, indexOf(sheet.headers, col))
      Present(col) == Has(col) /\ Len(Val(col)) > 0
  IN PushIf(Has(Column.Survey_Name) /\ Len(Val(Column.Survey_Name)) = 0,
       rowError("SM-NAME-EMPTY-", sheet, rowNumber, Column.Survey_Name,
         "Survey Name is mandatory", << >>, "error", "SM-04"))
     \o
     PushIf(Present(Column.Survey_Description)
              /\ wordCount(Val(Column.Survey_Description)) > MaxDescriptionWords,
       ValidationError(Tmpl("SM-DESC-WORDS-", << rowNumber >>, << >>),
         sheet.name, rowNumber, Str(Column.Survey_Description), Str(Column.Survey_Description),
         Tmpl("Survey Description exceeds 60 words limit (${wordCount} words)",
              << wordCount(Val(Column.Survey_Description)) >>, << >>),
         "error", "SM-05"))
     \o
     PushIf(Present(Column.Available_mediums) /\ hasWhiteSpace(Val(Column.Available_mediums)),
       rowError("SM-MEDIUMS-SPACES-", sheet, rowNumber, Column.Available_mediums,
         "Available_mediums must be comma separated with no spaces", << >>,
         "error", "SM-06"))
     \o
     PushIf(Present(Column.Hierarchical_Access_Level)
              /\ hasWhiteSpace(Val(Column.Hierarchical_Access_Level)),
       rowError("SM-HIERARCHY-SPACES-", sheet, rowNumber, Column.Hierarchical_Access_Level,
         "Hierarchical Access Level must be comma separated with no spaces", << >>,
         "error", "SM-07"))
     \o
     (IF ~Has(Column.Launch_Date) THEN << >>
      ELSE IF Len(Val(Column.Launch_Date)) = 0
      THEN << rowError("SM-LAUNCH-EMPTY-", sheet, rowNumber, Column.Launch_Date,
                "Launch Date is mandatory", << >>, "error", "SM-08") >>
      ELSE PushIf(~matchesDate(Val(Column.Launch_Date), LaunchTime),
             rowError("SM-LAUNCH-FORMAT-", sheet, rowNumber, Column.Launch_Date,
               "Launch Date must be in DD/MM/YYYY 00:00:00 format", << >>,
               "error", "SM-09")))
     \o
     PushIf(Present(Column.Close_Date) /\ ~matchesDate(Val(Column.Close_Date), CloseTime),
       rowError("SM-CLOSE-FORMAT-", sheet, rowNumber, Column.Close_Date,
         "Close Date must be in DD/MM/YYYY 23:59:00 format", << >>,
         "error", "SM-10"))
     \o
     PushIf(Present(Column.Mode) /\ ~inList(SM_validModes, Val(Column.Mode)),
       rowError("SM-MODE-INVALID-", sheet, rowNumber, Column.Mode,
         "Mode must be one of: New Data, Correction, delete data, None", << >>,
         "error", "SM-11"))
     \o
     ConcatAll([k \in 1..Len(yesNoFields) |->
       LET field == yesNoFields[k]
       IN PushIf(Present(field) /\ ~inList(<< Value.Yes, Value.No >>, Val(field)),
            ValidationError(Tmpl("invalid-yes-no-${field}-${rowNumber}",
                                 << rowNumber >>, << field >>),
              sheet.name, rowNumber, Str(field), Str(field),
              Tmpl("${field} must be exactly 'Yes' or 'No'", << >>, << field >>),
              "error", "SM-12"))])
     \o
     PushIf(Present(Column.Geo_Fencing) /\ Val(Column.Geo_Fencing) # Value.No,
       rowError("SM-GEOFENCING-", sheet, rowNumber, Column.Geo_Fencing,
         "Geo Fencing must be No only", << >>, "error", "SM-13"))
     \o
     PushIf(Present(Column.Test_Survey) /\ Val(Column.Test_Survey) # Value.No,
       rowError("SM-TESTSURVEY-", sheet, rowNumber, Column.Test_Survey,
         "Test Survey must be No only", << >>, "error", "SM-14"))

RECURSIVE smRows(_, _, _)
\* sheet.data.slice(1).forEach((row, index) => ...) from index on; acc is
\* [errors, surveyIds]
smRows(sheet, index, acc) ==
  IF index + 2 > Len(sheet.data) THEN acc
  ELSE
    LET row == sheet.data[index + 2]
        rowNumber == index + 2
    IN smRows(sheet, index + 1,
         [errors |-> acc.errors
                       \o whitespaceErrors(sheet, row, rowNumber, "SM-WS-")
                       \o smSurveyIdErrors(sheet, row, rowNumber, acc.surveyIds)
                       \o smFieldErrors(sheet, row, rowNumber),
          surveyIds |-> smSurveyIdsAfter(sheet, row, acc.surveyIds)])

\* validateSurveyMasterSheet with surveyIds kept at module level: a later call
\* starts with the ids the earlier call on the sheet has left in it
validateSurveyMasterSheet_moduleLevelSet(sheet) ==
  smRows(sheet, 0,
    [errors |-> missingColumnErrors(sheet, SM_requiredColumns, "SURVEY_MASTER_001"),
     surveyIds |->
       IF calls = 0 THEN {}
       ELSE smRows(sheet, 0, [errors |-> << >>, surveyIds |-> {}]).surveyIds]).errors

validateSurveyMasterSheet(sheet) ==
  smRows(sheet, 0,
    [errors |-> missingColumnErrors(sheet, SM_requiredColumns, "SURVEY_MASTER_001"),
     surveyIds |-> {}]).errors

-----------------------------------------------------------------------------
(* validateQuestionMasterSheet                                              *)

\* /^Q\d+(\.\d+|\.a|\.1\.a)?$/.test(s)
matchesQuestionId(s) ==
  /\ Len(s) >= 2
  /\ s[1] = "Q"
  /\ \E k \in 2..Len(s) :
       /\ allDigits(SubSeq(s, 2, k))
       /\ LET rest == SubSeq(s, k + 1, Len(s))
          IN \/ Len(rest) = 0
             \/ Len(rest) >= 2 /\ rest[1] = "." /\ allDigits(Tail(rest))
             \/ rest = << ".", "a" >>
             \/ rest = << ".", "1", ".", "a" >>

validQuestionTypes ==
  << Value.Multiple_Choice_Single_Select, Value.Multiple_Choice_Multi_Select, Value.Drop_Down,
     Value.Text_Response, Value.Tabular_Text_Input, Value.Tabular_Drop_Down, Value.Tabular_Check_Box,
     Value.Image_Upload, Value.Video_Upload, Value.Likert_Scale, Value.Calendar >>

\* the tabular types without Tabular Check Box
tabularTypes_withoutCheckBox == << Value.Tabular_Text_Input, Value.Tabular_Drop_Down >>

tabularTypes == << Value.Tabular_Text_Input, Value.Tabular_Drop_Down, Value.Tabular_Check_Box >>

QM_validModes == << Value.New_Data, Value.Correction, Value.Delete_Data, Value.None >>

\* the character limit of Question_Description_Optional
MaxDescriptionLength == 256

\* the Question_ID checks of one row; questionIds is the set of ids seen so far
qmQuestionIdErrors(sheet, row, rowNumber, questionIds) ==
  LET questionIdIndex == indexOf(sheet.headers, Column.Question_ID)
      questionId == cellText(row, questionIdIndex)
  IN IF questionIdIndex < 0 THEN << >>
     ELSE IF Len(questionId) = 0
     THEN << rowError("QM-QUESTIONID-EMPTY-", sheet, rowNumber, Column.Question_ID,
               "Question_ID is mandatory and cannot be empty", << >>, "error", "QM-04") >>
     ELSE PushIf(questionId \in questionIds,
            rowError("duplicate-question-id-", sheet, rowNumber, Column.Question_ID,
              "Duplicate Question ID: ${questionId}", << questionId >>, "error", "QM-05"))
          \o
          PushIf(~matchesQuestionId(questionId),
            rowError("invalid-question-id-format-", sheet, rowNumber, Column.Question_ID,
              "Question ID must follow format Q1, Q2, Q1.1, Q2.a, Q2.1.a", << >>,
              "error", "QM-06"))

\* questionIds after the row
qmQuestionIdsAfter(sheet, row, questionIds) ==
  LET questionIdIndex == indexOf(sheet.headers, Column.Question_ID)
      questionId == cellText(row, questionIdIndex)
  IN IF questionIdIndex >= 0 /\ Len(questionId) > 0 /\ questionId \notin questionIds
     THEN questionIds \cup {questionId} ELSE questionIds

\* qmLeadingErrors reading the Survey ID cell whether or not the column exists
qmLeadingErrors_unguarded(sheet, row, rowNumber) ==
  LET Has(col) == indexOf(sheet.headers, col) >= 0
      Val(col) == cellText(row, indexOf(sheet.headers, col))
  IN PushIf(Len(Val(Column.Survey_ID)) = 0,
       rowError("QM-SURVEYID-EMPTY-", sheet, rowNumber, Column.Survey_ID,
         "Survey ID is mandatory", << >>, "error", "QM-01"))
     \o
     PushIf(Has(Column.Medium) /\ Len(Val(Column.Medium)) = 0,
       rowError("QM-MEDIUM-EMPTY-", sheet, rowNumber, Column.Medium,
         "Medium is mandatory", << >>, "error", "QM-02"))
     \o
     PushIf(Has(Column.Medium_in_english) /\ Len(Val(Column.Medium_in_english)) = 0,
       rowError("QM-MEDIUMENG-EMPTY-", sheet, rowNumber, Column.Medium_in_english,
         "Medium_in_english is mandatory", << >>, "error", "QM-03"))

\* the checks of one row before Question_ID (Survey ID, Medium, Medium_in_english)
qmLeadingErrors(sheet, row, rowNumber) ==
  LET Has(col) == indexOf(sheet.headers, col) >= 0
      Val(col) == cellText(row, indexOf(sheet.headers, col))
  IN PushIf(Has(Column.Survey_ID) /\ Len(Val(Column.Survey_ID)) = 0,
       rowError("QM-SURVEYID-EMPTY-", sheet, rowNumber, Column.Survey_ID,
         "Survey ID is mandatory", << >>, "error", "QM-01"))
     \o
     PushIf(Has(Column.Medium) /\ Len(Val(Column.Medium)) = 0,
       rowError("QM-MEDIUM-EMPTY-", sheet, rowNumber, Column.Medium,
         "Medium is mandatory", << >>, "error", "QM-02"))
     \o
     PushIf(Has(Column.Medium_in_english) /\ Len(Val(Column.Medium_in_english)) = 0,
       rowError("QM-MEDIUMENG-EMPTY-", sheet, rowNumber, Column.Medium_in_english,
         "Medium_in_english is mandatory", << >>, "error", "QM-03"))

\* the checks of one row after Question_ID (Question Type .. Children Questions)
qmFieldErrors(sheet, row, rowNumber) ==
  LET Has(col) == indexOf(sheet.headers, col) >= 0
      Val(col) == cellText(row, indexOf(sheet.headers, col))
      Present(col) == Has(col) /\ Len(Val(col)) > 0
      maxNum == StringToNumber(Val(Column.Max_Value))
      minNum == StringToNumber(Val(Column.Min_Value))
      tabular == inList(tabularTypes, Val(Column.Question_Type))
  IN (IF ~Has(Column.Question_Type) THEN << >>
      ELSE IF Len(Val(Column.Question_Type)) = 0
      THEN << rowError("QM-QUESTIONTYPE-EMPTY-", sheet, rowNumber, Column.Question_Type,
                "Question Type is mandatory", << >>, "error", "QM-07") >>
      ELSE PushIf(~inList(validQuestionTypes, Val(Column.Question_Type)),
             rowError("QM-QUESTIONTYPE-INVALID-", sheet, rowNumber, Column.Question_Type,
               "Question Type must be one of the predefined types: ...", << >>,
               "error", "QM-08")))
     \o
     PushIf(Present(Column.IsDynamic),
       rowError("QM-ISDYNAMIC-", sheet, rowNumber, Column.IsDynamic,
         "IsDynamic must be empty", << >>, "error", "QM-09"))
     \o
     PushIf(Present(Column.Question_Description_Optional)
              /\ Len(Val(Column.Question_Description_Optional)) > MaxDescriptionLength,
       rowError("QM-QUESTIONDESC-LENGTH-", sheet, rowNumber, Column.Question_Description_Optional,
         "Question Description Optional exceeds 256 character limit", << >>,
         "error", "QM-10"))
     \o
     PushIf(/\ Present(Column.Max_Value) /\ Present(Column.Min_Value)
            /\ ~maxNum.nan /\ ~minNum.nan /\ NumLeq(maxNum, minNum),
       rowError("QM-MAXMIN-INVALID-", sheet, rowNumber, Column.Max_Value,
         "Max_Value must be greater than Min_Value", << >>, "error", "QM-11"))
     \o
     PushIf(Present(Column.Is_Mandatory) /\ ~inList(<< Value.Yes, Value.No >>, Val(Column.Is_Mandatory)),
       rowError("QM-ISMANDATORY-INVALID-", sheet, rowNumber, Column.Is_Mandatory,
         "Is Mandatory must be exactly Yes or No", << >>, "error", "QM-12"))
     \o
     (IF ~(Has(Column.Table_Header_value) /\ Has(Column.Question_Type)) THEN << >>
      ELSE IF tabular /\ Len(Val(Column.Table_Header_value)) = 0
      THEN << rowError("QM-TABLEHEADER-MISSING-", sheet, rowNumber, Column.Table_Header_value,
                "Table_Header_value is mandatory for Tabular question types", << >>,
                "error", "QM-13") >>
      ELSE PushIf(~tabular /\ Len(Val(Column.Table_Header_value)) > 0,
             rowError("QM-TABLEHEADER-UNEXPECTED-", sheet, rowNumber, Column.Table_Header_value,
               "Table_Header_value must be blank for non-tabular question types", << >>,
               "error", "QM-14")))
     \o
     PushIf(Present(Column.Mode) /\ ~inList(QM_validModes, Val(Column.Mode)),
       rowError("QM-MODE-INVALID-", sheet, rowNumber, Column.Mode,
         "Mode must be one of: New Data, Correction, Delete Data, None", << >>,
         "error", "QM-15"))
     \o
     (IF ~Has(Column.Question_Media_Type) THEN << >>
      ELSE IF Len(Val(Column.Question_Media_Type)) = 0
      THEN << rowError("QM-MEDIATYPE-EMPTY-", sheet, rowNumber, Column.Question_Media_Type,
                "Question_Media_Type cannot be empty. Use None if no media", << >>,
                "error", "QM-16") >>
      ELSE PushIf(Val(Column.Question_Media_Type) # Value.None,
             rowError("QM-MEDIATYPE-INVALID-", sheet, rowNumber, Column.Question_Media_Type,
               "Question_Media_Type must be None for all questions", << >>,
               "error", "QM-17")))
     \o
     PushIf(Present(Column.Correct_Answer_Optional),
       rowError("QM-CORRECTANSWER-", sheet, rowNumber, Column.Correct_Answer_Optional,
         "Correct_Answer_Optional must be empty", << >>, "error", "QM-18"))
     \o
     PushIf(Present(Column.Children_Questions),
       rowError("QM-CHILDRENQUESTIONS-", sheet, rowNumber, Column.Children_Questions,
         "Children Questions must be empty", << >>, "error", "QM-19"))

RECURSIVE qmRows(_, _, _)
\* sheet.data.slice(1).forEach((row, index) => ...) from index on; acc is
\* [errors, questionIds]
qmRows(sheet, index, acc) ==
  IF index + 2 > Len(sheet.data) THEN acc
  ELSE
    LET row == sheet.data[index + 2]
        rowNumber == index + 2
    IN qmRows(sheet, index + 1,
         [errors |-> acc.errors
                       \o whitespaceErrors(sheet, row, rowNumber, "QM-WS-")
                       \o qmLeadingErrors(sheet, row, rowNumber)
                       \o qmQuestionIdErrors(sheet, row, rowNumber, acc.questionIds)
                       \o qmFieldErrors(sheet, row, rowNumber),
          questionIds |-> qmQuestionIdsAfter(sheet, row, acc.questionIds)])

validateQuestionMasterSheet(sheet) ==
  qmRows(sheet, 0, [errors |-> << >>, questionIds |-> {}]).errors

-----------------------------------------------------------------------------
(* validateAccessSheet                                                      *)

AS_requiredColumns ==
  << Column.Designation, Column.Hierarchical_Level, Column.Bot_ID, Column.State, Column.Name, Column.User_ID, Column.Status >>

\* /^[6-9]\d{9}$/.test(s)
matchesMobile(s) ==
  /\ Len(s) = 10
  /\ s[1] \in {"6", "7", "8", "9"}
  /\ \A i \in 2..10 : s[i] \in Digits

\* /^[^\s@]+@[^\s@]+\.[^\s@]+$/.test(s)
matchesEmail(s) ==
  /\ \A i \in 1..Len(s) : s[i] \notin WhiteSpace
  /\ Cardinality({ i \in 1..Len(s) : s[i] = "@" }) = 1
  /\ \E p \in 2..Len(s) :
       /\ s[p] = "@"
       /\ \E q \in (p + 2)..(Len(s) - 1) : s[q] = "."

\* mobileChecked without the test that the cell is there
mobileChecked_unguarded(sheet, row) ==
  indexOf(sheet.headers, Column.Mobile) >= 0

\* mobileIndex >= 0 && row[mobileIndex]: the Mobile block is entered
mobileChecked(sheet, row) ==
  /\ indexOf(sheet.headers, Column.Mobile) >= 0
  /\ truthy(At(row, indexOf(sheet.headers, Column.Mobile)))

\* emailIndex >= 0 && row[emailIndex]: the Email block is entered
emailChecked(sheet, row) ==
  /\ indexOf(sheet.headers, Column.Email) >= 0
  /\ truthy(At(row, indexOf(sheet.headers, Column.Email)))

\* `${state}-${mobile}`
stateMobilePair(sheet, row) ==
  cellText(row, indexOf(sheet.headers, Column.State))
    \o << "-" >> \o trim(toString(At(row, indexOf(sheet.headers, Column.Mobile))))

\* the checks of one row up to Name (Designation .. Name)
asLeadingErrors(sheet, row, rowNumber) ==
  LET Has(col) == indexOf(sheet.headers, col) >= 0
      Val(col) == cellText(row, indexOf(sheet.headers, col))
      Present(col) == Has(col) /\ Len(Val(col)) > 0
      level == StringToNumber(Val(Column.Hierarchical_Level))
  IN PushIf(Has(Column.Designation) /\ Len(Val(Column.Designation)) = 0,
       rowError("AS-DESIGNATION-EMPTY-", sheet, rowNumber, Column.Designation,
         "Designation is mandatory", << >>, "error", "AS-01"))
     \o
     (IF ~Has(Column.Hierarchical_Level) THEN << >>
      ELSE IF Len(Val(Column.Hierarchical_Level)) = 0
      THEN << rowError("AS-HIERARCHY-EMPTY-", sheet, rowNumber, Column.Hierarchical_Level,
                "Hierarchical Level is mandatory", << >>, "error", "AS-02") >>
      ELSE PushIf(level.nan \/ ~isInteger(level),
             rowError("AS-HIERARCHY-FORMAT-", sheet, rowNumber, Column.Hierarchical_Level,
               "Hierarchical Level must be a numeric value, not text or special characters",
               << >>, "error", "AS-03")))
     \o
     PushIf(Present(Column.Bot_ID),
       rowError("AS-BOTID-ATTENTION-", sheet, rowNumber, Column.Bot_ID,
         "Bot ID is filled - attention needed", << >>, "warning", "AS-04"))
     \o
     PushIf(Has(Column.State) /\ Len(Val(Column.State)) = 0,
       rowError("AS-STATE-EMPTY-", sheet, rowNumber, Column.State,
         "State is mandatory", << >>, "error", "AS-05"))
     \o
     (IF ~Has(Column.Name) THEN << >>
      ELSE IF Len(Val(Column.Name)) = 0
      THEN << rowError("AS-NAME-EMPTY-", sheet, rowNumber, Column.Name,
                "Name is mandatory", << >>, "error", "AS-06") >>
      ELSE PushIf(~matchesAlphanumeric(Val(Column.Name)),
             rowError("AS-NAME-FORMAT-", sheet, rowNumber, Column.Name,
               "Name must be alpha, numeric or alphanumeric with underscore (_) only",
               << >>, "error", "AS-07")))

\* the User ID checks of one row; userIds is the set of ids seen so far
asUserIdErrors(sheet, row, rowNumber, userIds) ==
  LET userIdIndex == indexOf(sheet.headers, Column.User_ID)
      userId == cellText(row, userIdIndex)
  IN IF userIdIndex < 0 THEN << >>
     ELSE IF Len(userId) = 0
     THEN << rowError("AS-USERID-EMPTY-", sheet, rowNumber, Column.User_ID,
               "User ID is mandatory", << >>, "error", "AS-08") >>
     ELSE PushIf(userId \in userIds,
            rowError("AS-USERID-DUPLICATE-", sheet, rowNumber, Column.User_ID,
              "Duplicate User ID: ${userId}. Each User ID must be unique across the entire dataset",
              << userId >>, "error", "AS-09"))

\* userIds after the row
asUserIdsAfter(sheet, row, userIds) ==
  LET userIdIndex == indexOf(sheet.headers, Column.User_ID)
      userId == cellText(row, userIdIndex)
  IN IF userIdIndex >= 0 /\ Len(userId) > 0 /\ userId \notin userIds
     THEN userIds \cup {userId} ELSE userIds

\* the Status check of one row with the format check outside the else branch
asStatusErrors_noElse(sheet, row, rowNumber) ==
  LET statusIndex == indexOf(sheet.headers, Column.Status)
      status == cellText(row, statusIndex)
  IN IF statusIndex < 0 THEN << >>
     ELSE PushIf(Len(status) = 0,
            rowError("AS-STATUS-EMPTY-", sheet, rowNumber, Column.Status,
              "Status is mandatory", << >>, "error", "AS-10"))
          \o
          PushIf(~inList(<< Value.Active, Value.Inactive >>, status),
            rowError("AS-STATUS-INVALID-", sheet, rowNumber, Column.Status,
              "Status must be exactly Active or Inactive", << >>, "error", "AS-11"))

\* the Status check of one row
asStatusErrors(sheet, row, rowNumber) ==
  LET statusIndex == indexOf(sheet.headers, Column.Status)
      status == cellText(row, statusIndex)
  IN IF statusIndex < 0 THEN << >>
     ELSE IF Len(status) = 0
     THEN << rowError("AS-STATUS-EMPTY-", sheet, rowNumber, Column.Status,
               "Status is mandatory", << >>, "error", "AS-10") >>
     ELSE PushIf(~inList(<< Value.Active, Value.Inactive >>, status),
            rowError("AS-STATUS-INVALID-", sheet, rowNumber, Column.Status,
              "Status must be exactly Active or Inactive", << >>, "error", "AS-11"))

\* the Mobile checks of one row; stateMobilePairs is the set of pairs seen so far
asMobileErrors(sheet, row, rowNumber, stateMobilePairs) ==
  LET mobile == trim(toString(At(row, indexOf(sheet.headers, Column.Mobile))))
      state == cellText(row, indexOf(sheet.headers, Column.State))
  IN IF ~mobileChecked(sheet, row) THEN << >>
     ELSE IF ~matchesMobile(mobile)
     THEN << rowError("AS-MOBILE-FORMAT-", sheet, rowNumber, Column.Mobile,
               "Mobile number must be 10 digits starting with 6-9", << >>,
               "error", "AS-12") >>
     ELSE PushIf(stateMobilePair(sheet, row) \in stateMobilePairs,
            rowError("AS-STATEMOBILE-DUPLICATE-", sheet, rowNumber, Column.Mobile,
              "Duplicate (State, Mobile) combination: ${state}, ${mobile}",
              << state, mobile >>, "error", "AS-13"))

\* stateMobilePairs after the row
asPairsAfter(sheet, row, stateMobilePairs) ==
  LET mobile == trim(toString(At(row, indexOf(sheet.headers, Column.Mobile))))
  IN IF /\ mobileChecked(sheet, row)
        /\ matchesMobile(mobile)
        /\ stateMobilePair(sheet, row) \notin stateMobilePairs
     THEN stateMobilePairs \cup {stateMobilePair(sheet, row)} ELSE stateMobilePairs

\* the Email check of one row, reporting an ill-formed Email as an error
asEmailErrors_asError(sheet, row, rowNumber) ==
  LET email == trim(toString(At(row, indexOf(sheet.headers, Column.Email))))
  IN PushIf(emailChecked(sheet, row) /\ Len(email) > 0 /\ ~matchesEmail(email),
       rowError("AS-EMAIL-FORMAT-", sheet, rowNumber, Column.Email,
         "Invalid email format", << >>, "error", "AS-14"))

\* the Email check of one row
asEmailErrors(sheet, row, rowNumber) ==
  LET email == trim(toString(At(row, indexOf(sheet.headers, Column.Email))))
  IN PushIf(emailChecked(sheet, row) /\ Len(email) > 0 /\ ~matchesEmail(email),
       rowError("AS-EMAIL-FORMAT-", sheet, rowNumber, Column.Email,
         "Invalid email format", << >>, "warning", "AS-14"))

\* row[mobileIndex].toString() or row[emailIndex].toString() raises for the row
asRowRaises(sheet, row) ==
  \/ mobileChecked(sheet, row)
       /\ toStringRaises(At(row, indexOf(sheet.headers, Column.Mobile)))
  \/ emailChecked(sheet, row)
       /\ toStringRaises(At(row, indexOf(sheet.headers, Column.Email)))

RECURSIVE asRows(_, _, _)
\* sheet.data.slice(1).forEach((row, index) => ...) from index on; acc is
\* [errors, userIds, stateMobilePairs]
asRows(sheet, index, acc) ==
  IF index + 2 > Len(sheet.data) THEN acc
  ELSE
    LET row == sheet.data[index + 2]
        rowNumber == index + 2
    IN asRows(sheet, index + 1,
         [errors |-> acc.errors
                       \o whitespaceErrors(sheet, row, rowNumber, "AS-WS-")
                       \o asLeadingErrors(sheet, row, rowNumber)
                       \o asUserIdErrors(sheet, row, rowNumber, acc.userIds)
                       \o asStatusErrors(sheet, row, rowNumber)
                       \o asMobileErrors(sheet, row, rowNumber, acc.stateMobilePairs)
                       \o asEmailErrors(sheet, row, rowNumber),
          userIds |-> asUserIdsAfter(sheet, row, acc.userIds),
          stateMobilePairs |-> asPairsAfter(sheet, row, acc.stateMobilePairs)])

validateAccessSheet(sheet) ==
  asRows(sheet, 0,
    [errors |-> missingColumnErrors(sheet, AS_requiredColumns, "ACCESS_SHEET_001"),
     userIds |-> {}, stateMobilePairs |-> {}]).errors

\* validateAccessSheet raises iff one of its rows raises
validateAccessSheetRaises(sheet) ==
  \E i \in 2..Len(sheet.data) : asRowRaises(sheet, sheet.data[i])

-----------------------------------------------------------------------------
(* validateSheet and the summary.                                           *)

\* validateSheet going on to the header check after SHEET_EMPTY_001
validateSheet_noReturn(sheet, clk) ==
  LET errs == PushIf(Len(sheet.data) = 0,
                ValidationError(Tmpl("empty-sheet-${sheet.name}", << >>, << sheet.name >>),
                  sheet.name, 0, Str(<< >>), Str(Field.Sheet_Data),
                  Tmpl("Sheet is empty", << >>, << >>), "error", "SHEET_EMPTY_001"))
              \o
              PushIf(Len(sheet.headers) = 0,
                ValidationError(Tmpl("no-headers-${sheet.name}", << >>, << sheet.name >>),
                  sheet.name, 1, Str(<< >>), Str(Field.Headers),
                  Tmpl("No headers found in sheet", << >>, << >>),
                  "error", "HEADERS_001"))
  IN IF trim(sheet.name) = Sheet.Designation_Mapping
       THEN validateDesignationMappingSheet(sheet, clk)
     ELSE IF trim(sheet.name) = Sheet.Survey_Master
       THEN validateSurveyMasterSheet(sheet)
     ELSE IF trim(sheet.name) = Sheet.Question_Master
       THEN validateQuestionMasterSheet(sheet)
     ELSE IF trim(sheet.name) = Sheet.Access_Sheet
       THEN validateAccessSheet(sheet)
     ELSE errs

\* validateSheet with validateAccessSheet as the last branch of the dispatch,
\* taken by every remaining name
validateSheet_fallThrough(sheet, clk) ==
  IF Len(sheet.data) = 0
  THEN << ValidationError(Tmpl("empty-sheet-${sheet.name}", << >>, << sheet.name >>),
            sheet.name, 0, Str(<< >>), Str(Field.Sheet_Data),
            Tmpl("Sheet is empty", << >>, << >>), "error", "SHEET_EMPTY_001") >>
  ELSE
    IF trim(sheet.name) = Sheet.Designation_Mapping
       THEN validateDesignationMappingSheet(sheet, clk)
    ELSE IF trim(sheet.name) = Sheet.Survey_Master
       THEN validateSurveyMasterSheet(sheet)
    ELSE IF trim(sheet.name) = Sheet.Question_Master
       THEN validateQuestionMasterSheet(sheet)
    ELSE validateAccessSheet(sheet)

\* the sheet-specific validator is entered: its result replaces the local
\* errors array of validateSheet
validateSheet(sheet, clk) ==
  IF Len(sheet.data) = 0
  THEN << ValidationError(Tmpl("empty-sheet-${sheet.name}", << >>, << sheet.name >>),
            sheet.name, 0, Str(<< >>), Str(Field.Sheet_Data),
            Tmpl("Sheet is empty", << >>, << >>), "error", "SHEET_EMPTY_001") >>
  ELSE
    LET errs == PushIf(Len(sheet.headers) = 0,
                  ValidationError(Tmpl("no-headers-${sheet.name}", << >>, << sheet.name >>),
                    sheet.name, 1, Str(<< >>), Str(Field.Headers),
                    Tmpl("No headers found in sheet", << >>, << >>),
                    "error", "HEADERS_001"))
    IN IF trim(sheet.name) = Sheet.Designation_Mapping
         THEN validateDesignationMappingSheet(sheet, clk)
       ELSE IF trim(sheet.name) = Sheet.Survey_Master
         THEN validateSurveyMasterSheet(sheet)
       ELSE IF trim(sheet.name) = Sheet.Question_Master
         THEN validateQuestionMasterSheet(sheet)
       ELSE IF trim(sheet.name) = Sheet.Access_Sheet
         THEN validateAccessSheet(sheet)
       ELSE errs

\* validateSheet raises iff it dispatches to validateAccessSheet and that raises
validateSheetRaises(sheet) ==
  /\ Len(sheet.data) # 0
  /\ trim(sheet.name) = Sheet.Access_Sheet
  /\ validateAccessSheetRaises(sheet)

\* names every object inherits from Object.prototype (those a sheet of the
\* model can be named after)
ObjectPrototypeKeys ==
  { << "c", "o", "n", "s", "t", "r", "u", "c", "t", "o", "r" >> }

\* the value of such an inherited member: a native function
NativeFunction == [t |-> "fn", n |-> 0, s |-> << "function Object() { [native code] }" >>]

\* record[key] on an object created as {}
Lookup(record, key) ==
  IF key \in DOMAIN record THEN record[key]
  ELSE IF key \in ObjectPrototypeKeys THEN NativeFunction
  ELSE Absent

\* (record[key] || 0) + 1
Increment(record, key) ==
  LET old == Lookup(record, key)
      lhs == IF truthy(old) THEN old ELSE Num(0)
  IN IF lhs.t = "num" THEN Num(lhs.n + 1) ELSE Str(lhs.s \o << "1" >>)

\* record[key] = value
Assign(record, key, value) ==
  [x \in DOMAIN record \cup {key} |-> IF x = key THEN value ELSE record[x]]

RECURSIVE countBySheet(_, _, _)
\* errors.forEach: count errors and warnings by sheet, from errors[i] on;
\* acc is [errorsBySheet, warningsBySheet]
countBySheet(errs, i, acc) ==
  IF i > Len(errs) THEN acc
  ELSE LET error == errs[i] IN
    IF error.severity = "error"
    THEN countBySheet(errs, i + 1,
           [acc EXCEPT !.errorsBySheet =
              Assign(@, error.sheet, Increment(@, error.sheet))])
    ELSE IF error.severity = "warning"
    THEN countBySheet(errs, i + 1,
           [acc EXCEPT !.warningsBySheet =
              Assign(@, error.sheet, Increment(@, error.sheet))])
    ELSE countBySheet(errs, i + 1, acc)

\* errors.filter(e => e.severity === severity).length
filterLength(errs, severity) ==
  Cardinality({ i \in 1..Len(errs) : errs[i].severity = severity })

\* validateFMBDumpSheetErrors skipping the name checks after a count error
validateFMBDumpSheetErrors_shortCircuit(ss, clk) ==
  (IF Len(ss) # 4 THEN sheetCountErrors(ss)
   ELSE missingSheetErrors(ss) \o unexpectedSheetErrors(ss))
    \o ConcatAll([i \in 1..Len(ss) |-> validateSheet(ss[i], clk)])

\* the errors array built by validateFMBDumpSheet; clk holds the values the
\* call reads from Date.now()
validateFMBDumpSheetErrors(ss, clk) ==
  sheetCountErrors(ss) \o missingSheetErrors(ss) \o unexpectedSheetErrors(ss)
    \o ConcatAll([i \in 1..Len(ss) |-> validateSheet(ss[i], clk)])

\* the summary built by validateFMBDumpSheet from its errors array
validateFMBDumpSheetSummary(errs) ==
  LET bySheet == countBySheet(errs, 1, [errorsBySheet |-> << >>, warningsBySheet |-> << >>])
  IN [totalErrors |-> filterLength(errs, "error"),
      totalWarnings |-> filterLength(errs, "warning"),
      errorsBySheet |-> bySheet.errorsBySheet,
      warningsBySheet |-> bySheet.warningsBySheet]

\* validateFMBDumpSheet raises iff validateSheet raises for one of the sheets
validateFMBDumpSheetRaises(ss) ==
  \E i \in 1..Len(ss) : validateSheetRaises(ss[i])

\* parseFile: a parsed file is valid when its validation counted no error
isValid(validationResults) ==
  validationResults.summary.totalErrors = 0

-----------------------------------------------------------------------------
(* The documents the engine is run on.                                      *)

\* parseFile: a decoded sheet; headers is the first row of data, or [] when
\* there is none
SheetData(name, data) ==
  [name |-> name, data |-> data,
   headers |-> IF Len(data) > 0 THEN data[1] ELSE << >>]

\* most sheets of a document
MaxSheets == 5

\* most data rows (rows after the header row) of a sheet
MaxRows == 3

\* largest value read from Date.now()
MaxTime == 1

\* most validateFMBDumpSheet calls on one document
MaxCalls == 2

\* all sequences over S of length at most n
SeqsUpTo(S, n) == UNION { [1..k -> S] : k \in 0..n }

\* the header row with the given column names
HeaderRow(cols) == [i \in 1..Len(cols) |-> Str(cols[i])]

\* a string of 61 words
LongDescription == [i \in 1..(2 * MaxDescriptionWords + 1) |-> IF i % 2 = 1 THEN "w" ELSE " "]

\* a string of 257 characters
LongText == [i \in 1..(MaxDescriptionLength + 1) |-> "x"]

\* data rows offered to a Designation Mapping sheet
DMRows ==
  { << Str(<< "K", "A" >>), Str(<< "k", "n" >>), Str(<< "k", "n" >>), Str(<< "T", "_", "1" >>), Num(2) >>,
    << Str(<< "K", "A" >>), Str(<< "t", "e" >>), Str(<< "t", "e" >>), Str(<< "T", "_", "1" >>), Num(2) >>,
    << Str(<< " ", "K", "A" >>), Str(<< "k", "n", " " >>), Str(<< "k", "n" >>), Str(<< "T", "_", "1" >>), Num(3) >>,
    << Str(<< "K", "A" >>), Str(<< "\t", "k", "n" >>), Str(<< "k", "n" >>), Str(<< "T", " ", "1" >>), Str(<< "t", "w", "o" >>) >>,
    << Str(<< "K", "A" >>) >>,
    << Str(<< "K", "A" >>), Str(<< "k", "n" >>), Str(<< "k", "n" >>), Str(<< "T", "_", "1" >>), Num(0), Str(<< " ", "x" >>) >> }

\* data rows offered to a Designation Mapping sheet that differ in Hierarchical Level only (and in Medium)
DMLevelRows ==
  { << Str(<< "K", "A" >>), Str(<< "k", "n" >>), Str(<< "k", "n" >>), Str(<< "T", "_", "1" >>), Str(<< "2" >>) >>,
    << Str(<< "K", "A" >>), Str(<< "t", "e" >>), Str(<< "t", "e" >>), Str(<< "T", "_", "1" >>), Num(2) >>,
    << Str(<< "K", "A" >>), Str(<< "k", "n" >>), Str(<< "k", "n" >>), Str(<< "T", "_", "1" >>), Str(<< "2", ".", "0" >>) >>,
    << Str(<< "K", "A" >>), Str(<< "k", "n" >>), Str(<< "k", "n" >>), Str(<< "T", "_", "1" >>), Str(<< "1", ".", "5" >>) >>,
    << Str(<< "K", "A" >>), Str(<< "k", "n" >>), Str(<< "k", "n" >>), Str(<< "T", "_", "1" >>), Num(-1) >>,
    << Str(<< "K", "A" >>), Str(<< "k", "n" >>), Str(<< "k", "n" >>), Str(<< "T", "_", "1" >>), Str(<< "\t" >>) >> }

\* data rows offered to a Designation Mapping sheet whose mandatory cells are white space or numbers
DMPresenceRows ==
  { << Str(<< " " >>), Str(<< "k", "n" >>), Str(<< "k", "n" >>), Str(<< "T", "_", "1" >>), Num(2) >>,
    << Num(0), Num(0), Num(0), Num(0), Num(0) >>,
    << Str(<< "K", "A" >>), Str(<< "\t" >>), Str(<< " " >>), Str(<< " ", " " >>), Num(1) >>,
    << Num(5), Str(<< "k", "n" >>), Str(<< "k", "n" >>), Str(<< "T", "_", "1" >>), Num(3) >> }

\* data rows offered to a Survey Master sheet with the header Survey ID, Survey Name
SMIdRows ==
  { << Str(<< "A", "1" >>), Str(<< "n" >>) >>,
    << Str(<< "a", "1" >>), Str(<< "n" >>) >>,
    << Str(<< " ", "A", "1" >>) >>,
    << Num(1), Str(<< "n" >>) >>,
    << Str(<< "1" >>), Str(<< "n", " " >>) >>,
    << Str(<< " ", " " >>), Str(<< "n" >>) >> }

\* data rows offered to a Survey Master sheet with all sixteen required headers
SMFullRows ==
  { << Str(<< "S", "_", "1" >>), Str(<< "n" >>), Str(<< "a", " ", "b" >>), Str(<< "e", "n", ",", "h", "i" >>), Str(<< "1", ",", "2" >>), Str(<< "Y", "e", "s" >>), Str(<< "N", "o" >>), Str(<< "0", "1", "/", "0", "2", "/", "2", "0", "2", "4", " ", "0", "0", ":", "0", "0", ":", "0", "0" >>), Str(<< "0", "1", "/", "0", "2", "/", "2", "0", "2", "4", " ", "2", "3", ":", "5", "9", ":", "0", "0" >>), Str(<< "N", "e", "w", " ", "D", "a", "t", "a" >>), Str(<< "Y", "e", "s" >>), Str(<< "Y", "e", "s" >>), Str(<< "N", "o" >>), Str(<< "N", "o" >>), Str(<< "N", "o" >>), Str(<< "N", "o" >>) >>,
    << Str(<< "S", "_", "1" >>), Str(<< "n" >>), Str(<< "a", " ", "b" >>), Str(<< "e", "n", ",", "h", "i" >>), Str(<< "1", ",", "2" >>), Str(<< "Y", "e", "s" >>), Str(<< "N", "o" >>), Str(<< "1", "/", "2", "/", "2", "0", "2", "4" >>), Str(<< "0", "1", "/", "0", "2", "/", "2", "0", "2", "4", " ", "2", "3", ":", "5", "9", ":", "0", "0" >>), Str(<< "D", "e", "l", "e", "t", "e", " ", "D", "a", "t", "a" >>), Str(<< "Y", "e", "s" >>), Str(<< "Y", "e", "s" >>), Str(<< "N", "o" >>), Str(<< "Y", "e", "s" >>), Str(<< "N", "o" >>), Str(<< "N", "o" >>) >>,
    << Str(<< "S", " ", "2" >>), Str(<< "n" >>), Str(LongDescription), Str(<< "e", "n", ",", " ", "h", "i" >>), Str(<< "1", ",", "2" >>), Str(<< "Y" >>), Str(<< "N", "o" >>), Str(<< "0", "1", "/", "0", "2", "/", "2", "0", "2", "4", " ", "0", "0", ":", "0", "0", ":", "0", "0" >>), Absent, Str(<< "N", "e", "w", " ", "D", "a", "t", "a" >>), Str(<< "Y", "e", "s" >>), Str(<< "Y", "e", "s" >>), Str(<< "N", "o" >>), Str(<< "N", "o" >>), Str(<< "N", "o" >>), Str(<< "N", "o" >>) >>,
    << Str(<< "S", "_", "1" >>), Str(<< "n" >>), Str(<< "a", " ", "b" >>), Str(<< "e", "n", ",", "h", "i" >>), Str(<< "1", ",", "2" >>), Str(<< "Y", "e", "s" >>), Str(<< "N", "o" >>) >> }

\* data rows offered to a Question Master sheet
QMRows ==
  { << Str(<< "S", "_", "1" >>), Str(<< "e", "n" >>), Str(<< "e", "n" >>), Str(<< "Q", "1" >>), Str(<< "D", "r", "o", "p", " ", "D", "o", "w", "n" >>), Absent, Str(<< "d" >>), Str(<< "5" >>), Str(<< "1" >>), Str(<< "Y", "e", "s" >>), Absent, Str(<< "N", "o", "n", "e" >>), Str(<< "N", "o", "n", "e" >>), Absent, Absent >>,
    << Str(<< "S", "_", "1" >>), Str(<< "e", "n" >>), Str(<< "e", "n" >>), Str(<< "Q", "1" >>), Str(<< "T", "a", "b", "u", "l", "a", "r", " ", "D", "r", "o", "p", " ", "D", "o", "w", "n" >>), Absent, Str(<< "d" >>), Str(<< "1" >>), Str(<< "5" >>), Str(<< "N", "o" >>), Str(<< "h" >>), Str(<< "D", "e", "l", "e", "t", "e", " ", "D", "a", "t", "a" >>), Str(<< "N", "o", "n", "e" >>), Absent, Absent >>,
    << Absent, Str(<< " ", "e", "n" >>), Str(<< "e", "n" >>), Str(<< "Q", "1", ".", "a" >>), Str(<< "T", "a", "b", "u", "l", "a", "r", " ", "C", "h", "e", "c", "k", " ", "B", "o", "x" >>), Str(<< "x" >>), Str(LongText), Str(<< "1" >>), Str(<< "1" >>), Str(<< "y", "e", "s" >>), Absent, Str(<< "d", "e", "l", "e", "t", "e", " ", "d", "a", "t", "a" >>), Str(<< "I", "m", "a", "g", "e" >>), Str(<< "a" >>), Str(<< "Q", "2" >>) >>,
    << Str(<< "S", "_", "1" >>), Str(<< "e", "n" >>), Str(<< "e", "n" >>), Str(<< "q", "1" >>), Str(<< "T", "e", "x", "t" >>), Str(<< >>), Absent, Str(<< "x" >>), Str(<< "1" >>), Absent, Str(<< "h" >>), Absent, Absent >>,
    << Str(<< "S", "_", "1" >>), Str(<< "e", "n", "\t" >>) >> }

\* data rows offered to an Access Sheet
ASRows ==
  { << Str(<< "T", "_", "1" >>), Num(2), Absent, Str(<< "K", "A" >>), Str(<< "N", "_", "1" >>), Str(<< "u", "1" >>), Str(<< "A", "c", "t", "i", "v", "e" >>), Str(<< "9", "8", "7", "6", "5", "4", "3", "2", "1", "0" >>), Str(<< "a", "@", "b", ".", "c" >>) >>,
    << Str(<< "T", "_", "1" >>), Str(<< "2" >>), Str(<< "b", "o", "t" >>), Str(<< "K", "A" >>), Str(<< "N", "_", "1" >>), Str(<< "u", "1" >>), Str(<< "I", "n", "a", "c", "t", "i", "v", "e" >>), Num(5), Str(<< "a", "@", "b" >>) >>,
    << Str(<< "T", "_", "1" >>), Str(<< "-", "1" >>), Absent, Str(<< "T", "N" >>), Str(<< "N", " ", "1" >>), Str(<< "U", "1" >>), Str(<< "a", "c", "t", "i", "v", "e" >>), Str(<< "9", "8", "7", "6", "5", "4", "3", "2", "1", "0" >>), Absent >>,
    << Str(<< "T", "_", "1" >>), Str(<< "x" >>), Absent, Str(<< "K", "A" >>), Str(<< "N", "_", "1" >>), Str(<< " ", "u", "1" >>), Str(<< "A", "c", "t", "i", "v", "e" >>), Str(<< "1", "2", "3", "4", "5", "6", "7", "8", "9", "0" >>), Str(<< " " >>) >>,
    << Absent, Absent, Absent, Absent, Absent, Absent, Absent, Num(0) >>,
    << Str(<< "T", "_", "1" >>), Num(1), Absent, Str(<< "K", "A" >>), Str(<< "N", "_", "1" >>), Str(<< "u", "2" >>), Str(<< "A", "c", "t", "i", "v", "e" >>) >> }

\* data rows offered to the Access Sheet of a document of four sheets: no error, at most warnings
ASCleanRows ==
  { << Str(<< "T", "_", "1" >>), Num(2), Absent, Str(<< "K", "A" >>), Str(<< "N", "_", "1" >>), Str(<< "u", "1" >>), Str(<< "A", "c", "t", "i", "v", "e" >>), Str(<< "9", "8", "7", "6", "5", "4", "3", "2", "1", "0" >>), Str(<< "a", "@", "b", ".", "c" >>) >>,
    << Str(<< "T", "_", "1" >>), Num(2), Str(<< "b", "o", "t" >>), Str(<< "K", "A" >>), Str(<< "N", "_", "1" >>), Str(<< "u", "2" >>), Str(<< "A", "c", "t", "i", "v", "e" >>), Str(<< "9", "8", "7", "6", "5", "4", "3", "2", "1", "1" >>), Str(<< "a", "@", "b", ".", "c" >>) >>,
    << Str(<< "T", "_", "1" >>), Num(2), Absent, Str(<< "K", "A" >>), Str(<< "N", "_", "1" >>), Str(<< "u", "3" >>), Str(<< "A", "c", "t", "i", "v", "e" >>), Str(<< "9", "8", "7", "6", "5", "4", "3", "2", "1", "2" >>), Str(<< "a", "@", "b" >>) >>,
    << Str(<< "T", "_", "1" >>), Num(2), Absent, Str(<< "T", "N" >>), Str(<< "N", "_", "1" >>), Str(<< "u", "4" >>), Str(<< "A", "c", "t", "i", "v", "e" >>), Str(<< "9", "8", "7", "6", "5", "4", "3", "2", "1", "3" >>), Str(<< "a", "@", "b", ".", "c" >>) >> }

\* data rows offered to a sheet with an unexpected name
OtherRows ==
  { << Str(<< " ", "x" >>), Absent, Num(1) >>,
    << Str(<< "x", "\t" >>) >> }

\* a Designation Mapping data row that breaks no rule
DMCleanRow ==
  << Str(<< "K", "A" >>), Str(<< "k", "n" >>), Str(<< "k", "n" >>), Str(<< "T", "_", "1" >>), Num(2) >>

\* a Survey Master data row that breaks no rule
SMCleanRow ==
  << Str(<< "S", "_", "1" >>), Str(<< "n" >>), Str(<< "a", " ", "b" >>), Str(<< "e", "n", ",", "h", "i" >>), Str(<< "1", ",", "2" >>), Str(<< "Y", "e", "s" >>), Str(<< "N", "o" >>), Str(<< "0", "1", "/", "0", "2", "/", "2", "0", "2", "4", " ", "0", "0", ":", "0", "0", ":", "0", "0" >>), Str(<< "0", "1", "/", "0", "2", "/", "2", "0", "2", "4", " ", "2", "3", ":", "5", "9", ":", "0", "0" >>), Str(<< "N", "e", "w", " ", "D", "a", "t", "a" >>), Str(<< "Y", "e", "s" >>), Str(<< "Y", "e", "s" >>), Str(<< "N", "o" >>), Str(<< "N", "o" >>), Str(<< "N", "o" >>), Str(<< "N", "o" >>) >>

\* Question Master data rows that break no rule
QMCleanRows ==
  { << Str(<< "S", "_", "1" >>), Str(<< "e", "n" >>), Str(<< "e", "n" >>), Str(<< "Q", "1" >>), Str(<< "D", "r", "o", "p", " ", "D", "o", "w", "n" >>), Absent, Str(<< "d" >>), Str(<< "5" >>), Str(<< "1" >>), Str(<< "Y", "e", "s" >>), Absent, Str(<< "N", "o", "n", "e" >>), Str(<< "N", "o", "n", "e" >>), Absent, Absent >>,
    << Str(<< "S", "_", "2" >>), Str(<< "e", "n" >>), Str(<< "e", "n" >>), Str(<< "Q", "1" >>), Str(<< "D", "r", "o", "p", " ", "D", "o", "w", "n" >>), Absent, Str(<< "d" >>), Str(<< "5" >>), Str(<< "1" >>), Str(<< "Y", "e", "s" >>), Absent, Str(<< "N", "o", "n", "e" >>), Str(<< "N", "o", "n", "e" >>), Absent, Absent >> }

\* sheet names of the structure family: the four expected names, an expected
\* name with a leading space, and an unexpected name
StructNames ==
  << Sheet.Designation_Mapping, Sheet.Survey_Master, Sheet.Question_Master, Sheet.Access_Sheet,
     << " " >> \o Sheet.Survey_Master, Sheet.Sheet1 >>

\* the document of empty sheets named StructNames[idx[1]], StructNames[idx[2]], ...
StructDoc(idx) == [i \in 1..Len(idx) |-> SheetData(StructNames[idx[i]], << >>)]

\* s back to front
Reverse(s) == [i \in 1..Len(s) |-> s[Len(s) + 1 - i]]

\* documents of empty sheets: every list of up to four names of StructNames,
\* and the longer lists, up to MaxSheets names, in index order and reversed
StructDocs ==
  LET short == SeqsUpTo(1..Len(StructNames), Len(expectedSheets))
      long == { s \in SeqsUpTo(1..Len(StructNames), MaxSheets) :
                  /\ Len(s) > Len(expectedSheets)
                  /\ \A i \in 1..(Len(s) - 1) : s[i] <= s[i + 1] }
  IN { StructDoc(s) : s \in short }
       \cup { StructDoc(s) : s \in long } \cup { StructDoc(Reverse(s)) : s \in long }

\* the header row of a Question Master sheet with all its columns
QM_headers ==
  HeaderRow(<< Column.Survey_ID, Column.Medium, Column.Medium_in_english, Column.Question_ID,
               Column.Question_Type, Column.IsDynamic, Column.Question_Description_Optional,
               Column.Max_Value, Column.Min_Value, Column.Is_Mandatory,
               Column.Table_Header_value, Column.Mode, Column.Question_Media_Type,
               Column.Correct_Answer_Optional, Column.Children_Questions >>)

\* a sheet name, a header row, the data rows offered under it and the most
\* data rows taken
Templates ==
  { [name |-> Sheet.Designation_Mapping, header |-> HeaderRow(DM_requiredColumns),
     pool |-> DMRows, most |-> MaxRows],
    [name |-> Sheet.Designation_Mapping, header |-> HeaderRow(DM_requiredColumns),
     pool |-> DMLevelRows, most |-> MaxRows - 1],
    [name |-> Sheet.Designation_Mapping,
     header |-> HeaderRow(<< Column.State, Column.Medium, Column.Hierarchical_Level >>),
     pool |-> { << Str(<< "K", "A" >>), Str(<< "k", "n" >>), Num(1) >> }, most |-> MaxRows - 1],
    [name |-> Sheet.Designation_Mapping,
     header |-> HeaderRow(DM_requiredColumns \o << << "E", "x", "t", "r", "a" >> >>),
     pool |-> { << Str(<< "K", "A" >>) >> }, most |-> MaxRows - 1],
    [name |-> Sheet.Designation_Mapping,
     header |-> HeaderRow(<< Column.State, Column.Medium, Column.Medium_in_english,
                            Column.List_of_Designations, << "E", "x", "t", "r", "a" >> >>),
     pool |-> { << Str(<< "K", "A" >>) >> }, most |-> MaxRows - 1],
    [name |-> Sheet.Designation_Mapping \o << " " >>, header |-> << >>,
     pool |-> { << Str(<< "K", "A" >>) >> }, most |-> MaxRows - 1],
    [name |-> Sheet.Designation_Mapping, header |-> HeaderRow(DM_requiredColumns),
     pool |-> DMPresenceRows, most |-> MaxRows - 1],
    [name |-> Sheet.Survey_Master, header |-> HeaderRow(<< Column.Survey_ID, Column.Survey_Name >>),
     pool |-> SMIdRows, most |-> MaxRows],
    [name |-> Sheet.Survey_Master, header |-> HeaderRow(SM_requiredColumns),
     pool |-> SMFullRows, most |-> MaxRows - 1],
    [name |-> Sheet.Survey_Master, header |-> << >>,
     pool |-> { << Str(<< "A", "1" >>) >> }, most |-> MaxRows - 1],
    [name |-> Sheet.Question_Master, header |-> HeaderRow(<< << "E", "x", "t", "r", "a" >> >>),
     pool |-> OtherRows, most |-> MaxRows - 1],
    [name |-> Sheet.Question_Master,
     header |-> QM_headers,
     pool |-> QMRows, most |-> MaxRows - 1],
    [name |-> Sheet.Question_Master, header |-> << >>,
     pool |-> { << Str(<< "Q", "1", " " >>) >> }, most |-> MaxRows - 1],
    [name |-> Sheet.Access_Sheet,
     header |-> HeaderRow(AS_requiredColumns \o << Column.Mobile, Column.Email >>),
     pool |-> ASRows, most |-> MaxRows - 1],
    [name |-> Sheet.Access_Sheet, header |-> HeaderRow(<< Column.User_ID, Column.Mobile, Column.Status >>),
     pool |-> { << Str(<< "u", "1" >>), Str(<< "9", "8", "7", "6", "5", "4", "3", "2", "1", "0" >>) >>,
                << Str(<< "u", "1" >>) >>, << >> }, most |-> MaxRows - 1],
    [name |-> Sheet.Access_Sheet, header |-> << >>,
     pool |-> { << Str(<< "u", "1" >>) >> }, most |-> MaxRows - 1],
    [name |-> Sheet.Sheet1, header |-> HeaderRow(<< Column.State >>), pool |-> OtherRows,
     most |-> MaxRows - 1],
    [name |-> << "c", "o", "n", "s", "t", "r", "u", "c", "t", "o", "r" >>,
     header |-> << >>, pool |-> OtherRows, most |-> MaxRows - 1] }

\* single-sheet documents: a template's header row followed by data rows of
\* its pool
RowDocs ==
  UNION { { << SheetData(t.name, << t.header >> \o rows) >> :
              rows \in SeqsUpTo(t.pool, t.most) } : t \in Templates }

\* single-sheet documents whose sheet has no row at all
EmptyDocs ==
  { << SheetData(name, << >>) >> :
      name \in { << "c", "o", "n", "s", "t", "r", "u", "c", "t", "o", "r" >>,
                 Sheet.Survey_Master \o << "\t" >> } }

\* a header row and data rows for each of two sheets that reach the same rule
\* set: the second sheet is named as the first with a trailing space
PairTemplates ==
  { [name |-> Sheet.Survey_Master,
     header |-> HeaderRow(<< Column.Survey_ID, Column.Survey_Name >>),
     pool |-> { << Str(<< "A", "1" >>), Str(<< "n" >>) >>,
                << Str(<< " ", "A", "1" >>) >> }],
    [name |-> Sheet.Question_Master,
     header |-> HeaderRow(<< Column.Survey_ID, Column.Question_ID >>),
     pool |-> { << Str(<< "A", "1" >>), Str(<< "Q", "1" >>) >>,
                << Str(<< "A", "2" >>), Str(<< "Q", "1" >>) >> }],
    [name |-> Sheet.Access_Sheet,
     header |-> HeaderRow(<< Column.State, Column.User_ID, Column.Mobile >>),
     pool |-> { << Str(<< "K", "A" >>), Str(<< "u", "1" >>),
                   Str(<< "9", "8", "7", "6", "5", "4", "3", "2", "1", "0" >>) >>,
                << Str(<< "T", "N" >>), Str(<< "u", "1" >>),
                   Str(<< "9", "8", "7", "6", "5", "4", "3", "2", "1", "0" >>) >> }] }

\* two-sheet documents: both sheets reach the same rule set
PairDocs ==
  UNION { { << SheetData(t.name, << t.header >> \o rows1),
               SheetData(t.name \o << " " >>, << t.header >> \o rows2) >> :
              rows1 \in SeqsUpTo(t.pool, MaxRows - 2),
              rows2 \in SeqsUpTo(t.pool, MaxRows - 2) } : t \in PairTemplates }

\* documents of the four expected sheets, the first three with one valid data
\* row, the Access Sheet with rows that are valid up to warnings
FullDocs ==
  { << SheetData(Sheet.Designation_Mapping, << HeaderRow(DM_requiredColumns), DMCleanRow >>),
       SheetData(Sheet.Survey_Master, << HeaderRow(SM_requiredColumns), SMCleanRow >>),
       SheetData(Sheet.Question_Master, << QM_headers, question >>),
       SheetData(Sheet.Access_Sheet,
         << HeaderRow(AS_requiredColumns \o << Column.Mobile, Column.Email >>) >> \o rows) >> :
      question \in QMCleanRows, rows \in SeqsUpTo(ASCleanRows, MaxRows - 1) }

Documents == StructDocs \cup RowDocs \cup EmptyDocs \cup PairDocs \cup FullDocs

-----------------------------------------------------------------------------
(* The state machine: validateFMBDumpSheet is called on a document.         *)

NoSummary ==
  [totalErrors |-> 0, totalWarnings |-> 0, errorsBySheet |-> << >>,
   warningsBySheet |-> << >>]

NoResult == [outcome |-> "none", errors |-> << >>, summary |-> NoSummary]

\* null, and a value that is not null, of a nullable field
Null == << >>

NotNull(v) == << v >>

\* useState<FileUploadState>: the initial state of the component
InitialState ==
  [file |-> Null, isProcessing |-> FALSE, parsedData |-> Null, error |-> Null]

Init ==
  /\ sheets \in Documents
  /\ calls = 0
  /\ outcome = "none"
  /\ errors = << >>
  /\ summary = NoSummary
  /\ prev = NoResult
  /\ uploadState = InitialState
  /\ pending = {}

\* some sheet of the document reaches a Date.now() read: a Designation Mapping
\* sheet with data whose header row has not 5 columns or lacks a required one
readsDateNow(ss) ==
  \E i \in 1..Len(ss) :
    /\ Len(ss[i].data) # 0
    /\ trim(ss[i].name) = Sheet.Designation_Mapping
    /\ \/ Len(ss[i].headers) # 5
       \/ \E k \in 1..Len(DM_requiredColumns) : ~includes(ss[i].headers, DM_requiredColumns[k])

\* the values the two Date.now() reads of a call may return; a call that
\* reads no clock has nothing to choose
DateNowReads(ss) ==
  IF readsDateNow(ss) THEN (0..MaxTime) \X (0..MaxTime) ELSE { << 0, 0 >> }

\* one call validateFMBDumpSheet(sheets)
Validate ==
  /\ calls < MaxCalls
  /\ \E clk \in DateNowReads(sheets) :
       LET errs == validateFMBDumpSheetErrors(sheets, clk)
       IN IF validateFMBDumpSheetRaises(sheets)
          THEN /\ outcome' = "raised"
               /\ errors' = << >>
               /\ summary' = NoSummary
          ELSE /\ outcome' = "returned"
               /\ errors' = errs
               /\ summary' = validateFMBDumpSheetSummary(errs)
  /\ prev' = [outcome |-> outcome, errors |-> errors, summary |-> summary]
  /\ calls' = calls + 1
  /\ UNCHANGED << sheets, uploadState, pending >>

Next == Validate

Spec == Init /\ [][Next]_vars

-----------------------------------------------------------------------------
(* The upload component: FMBValidator selects a file, parseFile reads and   *)
(* decodes it and runs the engine, and the component shows the result.      *)

\* String.prototype.endsWith
endsWith(s, suffix) ==
  /\ Len(s) >= Len(suffix)
  /\ SubSeq(s, Len(s) - Len(suffix) + 1, Len(s)) = suffix

\* the file names offered to the drop zone
FileNames == { << "d", ".", "c", "s", "v" >>, << "d", ".", "x", "l", "s", "x" >> }

\* rows Papa.parse returns for a CSV text (no empty line is kept)
CsvRows ==
  { << Str(<< "S", "t", "a", "t", "e" >>) >>,
    << Str(<< "K", "A" >>), Str(<< " ", "x" >>) >> }

\* the workbooks XLSX.read returns, as the sheets parseFile maps them to
Workbooks == FullDocs \cup PairDocs

\* a file: its name, whether the FileReader can read it, whether decoding it
\* throws, and what it decodes to (rows of a CSV text, sheets of a workbook)
File(name, readable, malformed, csv, workbook) ==
  [name |-> name, readable |-> readable, malformed |-> malformed,
   csv |-> csv, workbook |-> workbook]

\* the files a user may select
Files ==
  { File(n, FALSE, FALSE, << >>, << >>) : n \in FileNames }
    \cup { File(n, TRUE, TRUE, << >>, << >>) : n \in { n \in FileNames : ~endsWith(n, << ".", "c", "s", "v" >>) } }
    \cup { File(n, TRUE, FALSE, rows, << >>) :
             n \in { n \in FileNames : endsWith(n, << ".", "c", "s", "v" >>) },
             rows \in SeqsUpTo(CsvRows, MaxRows - 1) }
    \cup { File(n, TRUE, FALSE, << >>, w) :
             n \in { n \in FileNames : ~endsWith(n, << ".", "c", "s", "v" >>) },
             w \in Workbooks }

\* reader.onload naming the sheet of a CSV text after an expected sheet
decodedSheets_namedAsExpected(file) ==
  IF endsWith(file.name, << ".", "c", "s", "v" >>)
  THEN << SheetData(Sheet.Designation_Mapping, file.csv) >>
  ELSE file.workbook

\* parseFile, reader.onload: the sheets decoded from the file
decodedSheets(file) ==
  IF endsWith(file.name, << ".", "c", "s", "v" >>)
  THEN << SheetData(Sheet.Sheet1, file.csv) >>
  ELSE file.workbook

\* parseFile, reader.onload: the ParsedFile the promise resolves with
ParsedFile(file, ss, validationResults) ==
  [fileName |-> file.name,
   sheets |-> ss,
   isValid |-> isValid(validationResults),
   validationErrors |-> validationResults.errors,
   validationSummary |-> validationResults.summary]

\* the FileUpload drop zone is rendered and enabled: the component shows
\* neither the processing view nor the dashboard
dropzoneShown == ~uploadState.isProcessing /\ uploadState.parsedData = Null

\* the "Upload Another File" button is rendered: the component shows the
\* dashboard
dashboardShown == ~uploadState.isProcessing /\ uploadState.parsedData # Null

\* handleFileSelect reachable from a drop zone that stays mounted and enabled
\* while a file is processed
handleFileSelect_whileProcessing(file) ==
  /\ uploadState.parsedData = Null
  /\ uploadState' = [uploadState EXCEPT !.isProcessing = TRUE, !.error = Null, !.file = NotNull(file)]
  /\ pending' = pending \cup { file }
  /\ UNCHANGED << sheets, calls, outcome, errors, summary, prev >>

\* handleFileSelect up to its await: the state is set and parseFile starts
\* reading the file
handleFileSelect(file) ==
  /\ dropzoneShown
  /\ uploadState' = [uploadState EXCEPT !.isProcessing = TRUE, !.error = Null, !.file = NotNull(file)]
  /\ pending' = pending \cup { file }
  /\ UNCHANGED << sheets, calls, outcome, errors, summary, prev >>

\* reader.onload rejecting also when the engine counted an error
readerOnload_rejectsInvalid(file) ==
  /\ file \in pending
  /\ file.readable
  /\ pending' = pending \ { file }
  /\ \E ss \in { decodedSheets(file) } :
       \E errs \in { validateFMBDumpSheetErrors(ss, << 0, 0 >>) } :
         \E sum \in { validateFMBDumpSheetSummary(errs) } :
           IF file.malformed \/ sum.totalErrors > 0
           THEN uploadState' = [uploadState EXCEPT
                  !.error = NotNull(Tmpl("Failed to parse file: ${error}", << >>, << >>)),
                  !.isProcessing = FALSE]
           ELSE uploadState' = [uploadState EXCEPT
                  !.parsedData = NotNull(ParsedFile(file, ss, [errors |-> errs, summary |-> sum])),
                  !.isProcessing = FALSE]
  /\ UNCHANGED << sheets, calls, outcome, errors, summary, prev >>

\* reader.onload of a pending parse and the rest of handleFileSelect: the
\* file is decoded and validated and the promise resolves with the
\* ParsedFile, or the catch block rejects when decoding or validating threw
readerOnload(file) ==
  /\ file \in pending
  /\ file.readable
  /\ pending' = pending \ { file }
  /\ \E ss \in { decodedSheets(file) } :
       IF file.malformed \/ validateFMBDumpSheetRaises(ss)
       THEN uploadState' = [uploadState EXCEPT
                      !.error = NotNull(Tmpl("Failed to parse file: ${error}", << >>, << >>)),
                      !.isProcessing = FALSE]
       ELSE \E clk \in DateNowReads(ss) :
              \E errs \in { validateFMBDumpSheetErrors(ss, clk) } :
                \E sum \in { validateFMBDumpSheetSummary(errs) } :
                  uploadState' = [uploadState EXCEPT
                    !.parsedData = NotNull(ParsedFile(file, ss, [errors |-> errs, summary |-> sum])),
                    !.isProcessing = FALSE]
  /\ UNCHANGED << sheets, calls, outcome, errors, summary, prev >>

\* reader.onerror of a pending parse and the catch block of handleFileSelect
readerOnerror(file) ==
  /\ file \in pending
  /\ ~file.readable
  /\ pending' = pending \ { file }
  /\ uploadState' = [uploadState EXCEPT
                 !.error = NotNull(Tmpl("Failed to read file", << >>, << >>)),
                 !.isProcessing = FALSE]
  /\ UNCHANGED << sheets, calls, outcome, errors, summary, prev >>

\* handleReset, from the button of the dashboard
handleReset ==
  /\ dashboardShown
  /\ uploadState' = InitialState
  /\ UNCHANGED << sheets, calls, outcome, errors, summary, prev, pending >>

\* the component before any file is selected; the engine variables stay as
\* they are, the result of a parse is held in state.parsedData
UploadInit ==
  /\ sheets = << >>
  /\ calls = 0
  /\ outcome = "none"
  /\ errors = << >>
  /\ summary = NoSummary
  /\ prev = NoResult
  /\ uploadState = InitialState
  /\ pending = {}

UploadNext ==
  \/ \E file \in Files : handleFileSelect(file)
  \/ \E file \in pending : readerOnload(file)
  \/ \E file \in pending : readerOnerror(file)
  \/ handleReset

UploadSpec == UploadInit /\ [][UploadNext]_vars

-----------------------------------------------------------------------------
(* Properties.                                                              *)

\* the last call returned a result
Returned == outcome = "returned"

\* number of returned errors with the given rule code
RuleCount(rule) == Cardinality({ k \in 1..Len(errors) : errors[k].rule = rule })

\* indexes of the returned errors that carry the given sheet name
ErrorsOfSheet(name) == { k \in 1..Len(errors) : errors[k].sheet = name }

\* the sheet is the only sheet of the document with its name
UniqueName(i) == \A j \in 1..Len(sheets) : sheets[j].name = sheets[i].name => j = i

\* a list of errors without the id fields
StripIds(errs) == [k \in 1..Len(errs) |-> [errs[k] EXCEPT !.id = << >>]]

RECURSIVE SumValues(_, _)
\* the sum of the numeric values of a by-sheet record over the keys in K
SumValues(record, K) ==
  IF K = {} THEN 0
  ELSE LET k == CHOOSE x \in K : TRUE
       IN record[k].n + SumValues(record, K \ {k})

\* every value of a by-sheet record is a number
AllNumbers(record) == \A k \in DOMAIN record : record[k].t = "num"

\* C1: the summary is consistent with the returned violations: totalErrors and
\* totalWarnings count the violations of severity error and warning, the values
\* of errorsBySheet and of warningsBySheet are numbers that sum to those totals,
\* and the document-level violations are counted under "File Structure".
C1_SummaryConsistent ==
  Returned =>
    /\ summary.totalErrors
         = Cardinality({ k \in 1..Len(errors) : errors[k].severity = "error" })
    /\ summary.totalWarnings
         = Cardinality({ k \in 1..Len(errors) : errors[k].severity = "warning" })
    /\ AllNumbers(summary.errorsBySheet)
    /\ AllNumbers(summary.warningsBySheet)
    /\ SumValues(summary.errorsBySheet, DOMAIN summary.errorsBySheet) = summary.totalErrors
    /\ SumValues(summary.warningsBySheet, DOMAIN summary.warningsBySheet)
         = summary.totalWarnings
    /\ LET structural == { k \in 1..Len(errors) :
                             errors[k].rule \in { "SHEET_COUNT_001", "SHEET_STRUCTURE_001",
                                                  "SHEET_STRUCTURE_002" } }
       IN structural # {} =>
            /\ Sheet.File_Structure \in DOMAIN summary.errorsBySheet
            /\ summary.errorsBySheet[Sheet.File_Structure] = Num(Cardinality(structural))

\* the sheet list is the four expected names, each exactly once after trimming
FourExpectedSheets ==
  /\ Len(sheets) = 4
  /\ \A e \in 1..Len(expectedSheets) :
       Cardinality({ i \in 1..Len(sheets) : trim(sheets[i].name) = expectedSheets[e] }) = 1

\* C2: structural gate: no SHEET_COUNT_001, SHEET_STRUCTURE_001 or
\* SHEET_STRUCTURE_002 violation is returned if and only if the document has
\* exactly four sheets whose trimmed names are the four expected names, each
\* once, in any order.
C2_StructuralGate ==
  Returned =>
    ( ( RuleCount("SHEET_COUNT_001") = 0 /\ RuleCount("SHEET_STRUCTURE_001") = 0
          /\ RuleCount("SHEET_STRUCTURE_002") = 0 )
      <=> FourExpectedSheets )

\* a document of the four expected sheets, one name padded and not in the
\* canonical order, has passed the gate
C2_Witness ==
  /\ Returned
  /\ FourExpectedSheets
  /\ \E i \in 1..4 : trim(sheets[i].name) # sheets[i].name
  /\ sheets[1].name # Sheet.Designation_Mapping
  /\ RuleCount("SHEET_COUNT_001") + RuleCount("SHEET_STRUCTURE_001")
       + RuleCount("SHEET_STRUCTURE_002") = 0

\* C3: the three structural checks all run: exactly one SHEET_COUNT_001 iff the
\* sheet count is not 4, exactly one SHEET_STRUCTURE_001 per expected name no
\* sheet's trimmed name equals, exactly one SHEET_STRUCTURE_002 per sheet whose
\* trimmed name is not expected; each is an error with sheet "File Structure"
\* and row 0.
C3_StructuralChecks ==
  Returned =>
    /\ RuleCount("SHEET_COUNT_001") = (IF Len(sheets) # 4 THEN 1 ELSE 0)
    /\ \A e \in 1..Len(expectedSheets) :
         Cardinality({ k \in 1..Len(errors) :
                         /\ errors[k].rule = "SHEET_STRUCTURE_001"
                         /\ errors[k].message.s = << expectedSheets[e] >> })
           = (IF \E i \in 1..Len(sheets) : trim(sheets[i].name) = expectedSheets[e]
              THEN 0 ELSE 1)
    /\ \A k \in 1..Len(errors) :
         errors[k].rule = "SHEET_STRUCTURE_001" =>
           \E e \in 1..Len(expectedSheets) : errors[k].message.s = << expectedSheets[e] >>
    /\ \A nm \in { sheets[i].name : i \in 1..Len(sheets) } :
         Cardinality({ k \in 1..Len(errors) :
                         /\ errors[k].rule = "SHEET_STRUCTURE_002"
                         /\ errors[k].message.s = << nm >> })
           = (IF \E e \in 1..Len(expectedSheets) : trim(nm) = expectedSheets[e]
              THEN 0
              ELSE Cardinality({ i \in 1..Len(sheets) : sheets[i].name = nm }))
    /\ RuleCount("SHEET_STRUCTURE_002")
         = Cardinality({ i \in 1..Len(sheets) :
                           \A e \in 1..Len(expectedSheets) :
                             trim(sheets[i].name) # expectedSheets[e] })
    /\ \A k \in 1..Len(errors) :
         errors[k].rule \in { "SHEET_COUNT_001", "SHEET_STRUCTURE_001", "SHEET_STRUCTURE_002" }
           => /\ errors[k].severity = "error"
              /\ errors[k].sheet = Sheet.File_Structure
              /\ errors[k].row = 0

\* five sheets, one of them misnamed, have yielded both a count error and an
\* unexpected-sheet error
C3_Witness ==
  /\ Returned
  /\ Len(sheets) = 5
  /\ Cardinality({ i \in 1..5 : ~isExpectedSheet(trim(sheets[i].name)) }) = 1
  /\ RuleCount("SHEET_COUNT_001") = 1
  /\ RuleCount("SHEET_STRUCTURE_002") = 1

\* a row padded with absent cells up to the width w
PadRow(row, w) ==
  [k \in 1..(IF Len(row) < w THEN w ELSE Len(row)) |->
     IF k <= Len(row) THEN row[k] ELSE Absent]

\* the document with every data row padded to the width of its header row
PadDoc(ss) ==
  [i \in 1..Len(ss) |->
     [ss[i] EXCEPT !.data =
        [r \in 1..Len(ss[i].data) |->
           IF r = 1 THEN ss[i].data[1] ELSE PadRow(ss[i].data[r], Len(ss[i].headers))]]]

\* C4: validate is total: every call returns a violation list and summary and
\* none raises; the violations of a document with data rows shorter than the
\* header are exactly those of the document with these rows padded with absent
\* cells.
C4_Total ==
  calls > 0 =>
    /\ outcome = "returned"
    /\ ~validateFMBDumpSheetRaises(PadDoc(sheets))
    /\ StripIds(errors) = StripIds(validateFMBDumpSheetErrors(PadDoc(sheets), << 0, 0 >>))

\* an Access Sheet with a Mobile column and a data row that ends before it
\* has been validated
C4_Witness ==
  /\ Returned
  /\ \E i \in 1..Len(sheets) :
       /\ trim(sheets[i].name) = Sheet.Access_Sheet
       /\ indexOf(sheets[i].headers, Column.Mobile) >= 0
       /\ \E r \in 2..Len(sheets[i].data) :
            /\ Len(sheets[i].data[r]) <= indexOf(sheets[i].headers, Column.Mobile)
            /\ Len(sheets[i].data[r]) > 0

\* C5: determinism: a second validate call on the same document returns the
\* same sequence of violations, field for field except the id, and the same
\* summary.
C5_Deterministic ==
  calls >= 2 =>
    /\ prev.outcome = outcome
    /\ StripIds(prev.errors) = StripIds(errors)
    /\ prev.summary = summary

\* two calls on one document have returned lists that differ, in their ids
C5_Witness ==
  /\ calls >= 2
  /\ Returned
  /\ prev.errors # errors

\* every sheet of the document that has the name of sheet i has at most
\* n rows in data
AllNamedShort(i, n) ==
  \A j \in 1..Len(sheets) : sheets[j].name = sheets[i].name => Len(sheets[j].data) <= n

StructuralRules == { "SHEET_COUNT_001", "SHEET_STRUCTURE_001", "SHEET_STRUCTURE_002" }

\* the sheets named as sheet i contribute one SHEET_EMPTY_001 error each and
\* nothing else
OnlySheetEmpty(i) ==
  LET own == { k \in ErrorsOfSheet(sheets[i].name) : errors[k].rule \notin StructuralRules }
  IN /\ Cardinality(own)
          = Cardinality({ j \in 1..Len(sheets) : sheets[j].name = sheets[i].name })
     /\ \A k \in own : errors[k].rule = "SHEET_EMPTY_001" /\ errors[k].severity = "error"

\* C6 as stated: a sheet without data rows (no row after the header row)
\* contributes exactly one violation, a SHEET_EMPTY_001 error, and no other
\* violation carries its name.
C6_Original ==
  Returned =>
    \A i \in 1..Len(sheets) : AllNamedShort(i, 1) => OnlySheetEmpty(i)

\* C6 as amended: a sheet whose data has no row at all, not even a header row,
\* contributes exactly one violation, a SHEET_EMPTY_001 error, and no other
\* violation carries its name.
C6_EmptySheet ==
  Returned =>
    \A i \in 1..Len(sheets) : AllNamedShort(i, 0) => OnlySheetEmpty(i)

\* a sheet with an expected name and no row at all has been validated
C6_Witness ==
  /\ Returned
  /\ \E i \in 1..Len(sheets) :
       /\ Len(sheets[i].data) = 0
       /\ isExpectedSheet(trim(sheets[i].name))
       /\ RuleCount("SHEET_EMPTY_001") >= 1

\* C7: a sheet with data and an empty header row gets a HEADERS_001 error,
\* the four expected sheets included.
C7_HeadersError ==
  Returned =>
    \A i \in 1..Len(sheets) :
      (Len(sheets[i].data) > 0 /\ Len(sheets[i].headers) = 0) =>
        \E k \in ErrorsOfSheet(sheets[i].name) :
          errors[k].rule = "HEADERS_001" /\ errors[k].severity = "error"

\* the required columns (as indexes into req) the header row of the sheet lacks
MissingOf(sheet, req) ==
  { c \in 1..Len(req) : \A h \in 1..Len(sheet.headers) : sheet.headers[h] # Str(req[c]) }

\* the row-1 errors of sheet i with the given rule
HeaderErrors(i, rule) ==
  { k \in ErrorsOfSheet(sheets[i].name) : errors[k].rule = rule /\ errors[k].row = 1 }

\* one error per required column the header lacks, citing the column
OnePerMissing(i, req, rule) ==
  /\ Cardinality(HeaderErrors(i, rule)) = Cardinality(MissingOf(sheets[i], req))
  /\ \A c \in 1..Len(req) :
       Cardinality({ k \in HeaderErrors(i, rule) :
                       \E m \in 1..Len(errors[k].message.s) : errors[k].message.s[m] = req[c] })
         = (IF c \in MissingOf(sheets[i], req) THEN 1 ELSE 0)
  /\ \A k \in HeaderErrors(i, rule) : errors[k].severity = "error"

\* sheet i has reached its rule set and is the only sheet of its name
RuleSetRan(i, name) ==
  /\ trim(sheets[i].name) = name
  /\ Len(sheets[i].data) > 0
  /\ UniqueName(i)

\* C8 as stated: in Designation Mapping, Survey Master and Access Sheet the
\* number of missing-required-column errors (row 1) is the number of required
\* columns the header row lacks, one error per such column, citing its name.
C8_Original ==
  Returned =>
    \A i \in 1..Len(sheets) :
      /\ RuleSetRan(i, Sheet.Designation_Mapping) => OnePerMissing(i, DM_requiredColumns, "DM-01")
      /\ RuleSetRan(i, Sheet.Survey_Master) => OnePerMissing(i, SM_requiredColumns, "SURVEY_MASTER_001")
      /\ RuleSetRan(i, Sheet.Access_Sheet) => OnePerMissing(i, AS_requiredColumns, "ACCESS_SHEET_001")

\* C8 as amended: Survey Master and Access Sheet report one error (row 1) per
\* required column the header row lacks, citing its name; Designation Mapping
\* reports a single DM-01 error (row 1) iff it lacks at least one required
\* column, and the message names all the columns it lacks.
C8_MissingColumns ==
  Returned =>
    \A i \in 1..Len(sheets) :
      /\ RuleSetRan(i, Sheet.Designation_Mapping) =>
           LET missing == MissingOf(sheets[i], DM_requiredColumns)
               dm01 == HeaderErrors(i, "DM-01")
           IN /\ Cardinality(dm01) = (IF missing = {} THEN 0 ELSE 1)
              /\ \A k \in dm01 :
                   /\ errors[k].severity = "error"
                   /\ Len(errors[k].message.s) = Cardinality(missing)
                   /\ \A c \in missing :
                        \E m \in 1..Len(errors[k].message.s) :
                          errors[k].message.s[m] = DM_requiredColumns[c]
      /\ RuleSetRan(i, Sheet.Survey_Master) => OnePerMissing(i, SM_requiredColumns, "SURVEY_MASTER_001")
      /\ RuleSetRan(i, Sheet.Access_Sheet) => OnePerMissing(i, AS_requiredColumns, "ACCESS_SHEET_001")

\* a Survey Master sheet or an Access Sheet lacking several required columns
\* has been validated and has one error per column it lacks
C8_Witness ==
  /\ Returned
  /\ \E i \in 1..Len(sheets) :
       \/ /\ RuleSetRan(i, Sheet.Survey_Master)
          /\ Cardinality(MissingOf(sheets[i], SM_requiredColumns)) >= 2
          /\ Cardinality(HeaderErrors(i, "SURVEY_MASTER_001")) >= 2
       \/ /\ RuleSetRan(i, Sheet.Access_Sheet)
          /\ Cardinality(MissingOf(sheets[i], AS_requiredColumns)) >= 2
          /\ Cardinality(HeaderErrors(i, "ACCESS_SHEET_001")) >= 2

\* the string starts or ends with a white space character
HasOuterWhiteSpace(s) ==
  Len(s) > 0 /\ (s[1] \in WhiteSpace \/ s[Len(s)] \in WhiteSpace)

\* C9: whitespace detection: in every data row of the four expected sheets the
\* number of U-01 violations is the number of string cells of the row with
\* leading or trailing whitespace; each is an error with row = index + 2 and
\* column = the header at the cell's index.
C9_Whitespace ==
  Returned =>
    \A i \in 1..Len(sheets) :
      (isExpectedSheet(trim(sheets[i].name)) /\ Len(sheets[i].data) > 0 /\ UniqueName(i)) =>
        \A r \in 2..Len(sheets[i].data) :
          LET row == sheets[i].data[r]
              cells == { c \in 1..Len(row) : row[c].t = "str" /\ HasOuterWhiteSpace(row[c].s) }
              u01 == { k \in ErrorsOfSheet(sheets[i].name) :
                         errors[k].rule = "U-01" /\ errors[k].row = r }
          IN /\ Cardinality(u01) = Cardinality(cells)
             /\ \A k \in u01 :
                  /\ errors[k].severity = "error"
                  /\ \E c \in cells : errors[k].column = At(sheets[i].headers, c - 1)

\* C10: in Survey Master a data row gets an SM-02 error exactly when its
\* Survey ID (the cell as a trimmed string) is present and is, character for
\* character, the Survey ID of an earlier data row: never the first occurrence
\* of a value, exactly one for every later occurrence.
C10_DuplicateSurveyId ==
  Returned =>
    \A i \in 1..Len(sheets) :
      RuleSetRan(i, Sheet.Survey_Master) =>
        LET idx == indexOf(sheets[i].headers, Column.Survey_ID)
            Id(r) == cellText(sheets[i].data[r], idx)
        IN \A r \in 2..Len(sheets[i].data) :
             Cardinality({ k \in ErrorsOfSheet(sheets[i].name) :
                             errors[k].rule = "SM-02" /\ errors[k].row = r })
               = (IF /\ idx >= 0
                     /\ Len(Id(r)) > 0
                     /\ \E q \in 2..(r - 1) : Id(q) = Id(r)
                  THEN 1 ELSE 0)

\* a Survey Master sheet whose second data row repeats the Survey ID of the
\* first has been validated and the second row has its SM-02 error
C10_Witness ==
  /\ Returned
  /\ \E i \in 1..Len(sheets) :
       /\ RuleSetRan(i, Sheet.Survey_Master)
       /\ Len(sheets[i].data) >= 3
       /\ \E k \in ErrorsOfSheet(sheets[i].name) :
            errors[k].rule = "SM-02" /\ errors[k].row = 3

\* the document with the last row of sheet i removed
DropLastRow(ss, i) ==
  [ss EXCEPT ![i].data = SubSeq(ss[i].data, 1, Len(ss[i].data) - 1)]

\* the sheet reduced to its header row
HeaderOnly(sheet) == [sheet EXCEPT !.data = << sheet.data[1] >>]

\* the sheet reduced to its header row and its row r, as the first data row
OnlyRow(sheet, r) == [sheet EXCEPT !.data = << sheet.data[1], sheet.data[r] >>]

\* row r of the sheet triggers no violation on its own: alone under the header
\* row it adds nothing to the violations of the header row
CleanRow(sheet, r) ==
  validateSheet(OnlyRow(sheet, r), << 0, 0 >>) = validateSheet(HeaderOnly(sheet), << 0, 0 >>)

\* the last row of Survey Master sheet i is clean on its own and repeats the
\* Survey ID of an earlier data row
AppendedDuplicate(i) ==
  LET sheet == sheets[i]
      n == Len(sheet.data)
      idx == indexOf(sheet.headers, Column.Survey_ID)
  IN /\ RuleSetRan(i, Sheet.Survey_Master)
     /\ n >= 3
     /\ idx >= 0
     /\ CleanRow(sheet, n)
     /\ Len(cellText(sheet.data[n], idx)) > 0
     /\ \E q \in 2..(n - 1) : cellText(sheet.data[q], idx) = cellText(sheet.data[n], idx)

\* the error is the SM-02 error of row n of the sheet named name
IsDuplicateOf(e, name, n) == e.rule = "SM-02" /\ e.row = n /\ e.sheet = name

\* C11: appending to Survey Master a data row that is clean on its own and
\* repeats an existing Survey ID adds exactly one error, an SM-02 on the new
\* row: totalErrors grows by 1 and the violations of every other row and sheet
\* are those of the document without the row.
C11_AppendDuplicate ==
  Returned =>
    \A i \in 1..Len(sheets) :
      AppendedDuplicate(i) =>
        LET n == Len(sheets[i].data)
            name == sheets[i].name
            base == validateFMBDumpSheetErrors(DropLastRow(sheets, i), << 0, 0 >>)
            kept == SelectSeq(errors, LAMBDA e : ~IsDuplicateOf(e, name, n))
        IN /\ Len(errors) = Len(base) + 1
           /\ Len(kept) = Len(base)
           /\ StripIds(kept) = StripIds(base)
           /\ summary.totalErrors = validateFMBDumpSheetSummary(base).totalErrors + 1
           /\ summary.totalWarnings = validateFMBDumpSheetSummary(base).totalWarnings

\* a Survey Master sheet whose last row is clean and repeats an earlier Survey
\* ID has been validated and that row has its SM-02 error
C11_Witness ==
  /\ Returned
  /\ \E i \in 1..Len(sheets) :
       /\ AppendedDuplicate(i)
       /\ \E k \in 1..Len(errors) :
            IsDuplicateOf(errors[k], sheets[i].name, Len(sheets[i].data))

\* the rules that report a duplicate value
DuplicateRules == { "SM-02", "QM-05", "AS-09", "AS-13" }

\* the value a duplicate rule reads from a row, as a tuple of strings
DuplicateKey(rule, sheet, row) ==
  LET Text(col) == cellText(row, indexOf(sheet.headers, col))
  IN CASE rule = "SM-02" -> << Text(Column.Survey_ID) >>
       [] rule = "QM-05" -> << Text(Column.Question_ID) >>
       [] rule = "AS-09" -> << Text(Column.User_ID) >>
       [] rule = "AS-13" -> << Text(Column.State), Text(Column.Mobile) >>

\* C12: the uniqueness accumulators are local to one rule-set invocation: a
\* duplicate violation (SM-02, QM-05, AS-09, AS-13) is on a row only if an
\* earlier data row of the same sheet carries the same value, in the first
\* call and in every later call, also when another sheet of the document
\* carries the value.
C12_LocalAccumulators ==
  Returned =>
    \A k \in 1..Len(errors) :
      errors[k].rule \in DuplicateRules =>
        \E i \in 1..Len(sheets) :
          /\ sheets[i].name = errors[k].sheet
          /\ errors[k].row \in 3..Len(sheets[i].data)
          /\ \E q \in 2..(errors[k].row - 1) :
               DuplicateKey(errors[k].rule, sheets[i], sheets[i].data[q])
                 = DuplicateKey(errors[k].rule, sheets[i], sheets[i].data[errors[k].row])

\* a document of two Survey Master sheets, each with one data row of the same
\* Survey ID, has been validated a second time and has no duplicate violation
C12_Witness ==
  /\ Returned
  /\ calls >= 2
  /\ Len(sheets) = 2
  /\ \A i \in 1..2 :
       /\ trim(sheets[i].name) = Sheet.Survey_Master
       /\ Len(sheets[i].data) = 2
       /\ cellText(sheets[i].data[2], indexOf(sheets[i].headers, Column.Survey_ID))
            = << "A", "1" >>
  /\ \A k \in 1..Len(errors) : errors[k].rule \notin DuplicateRules

\* the non-negative integer a Hierarchical Level cell holds: a numeric cell or
\* a text that, trimmed, is not empty and is the numeral of an integer that
\* is not negative; -1 when the cell holds none
LevelValue(c) ==
  IF c.t = "absent" \/ (c.t = "str" /\ Len(trim(c.s)) = 0) THEN -1
  ELSE LET x == Number(c)
       IN IF x.nan \/ x.v < 0 \/ ~isInteger(x) THEN -1 ELSE IntegerValue(x)

\* the Hierarchical Level cell of a row
LevelCell(sheet, row) == At(row, indexOf(sheet.headers, Column.Hierarchical_Level))

\* the data rows of the sheet whose Hierarchical Level is the non-negative
\* integer v
RowsOfLevel(sheet, v) ==
  { r \in 2..Len(sheet.data) : LevelValue(LevelCell(sheet, sheet.data[r])) = v }

\* the levels that data rows of the sheet hold
LevelsOf(sheet) ==
  { LevelValue(LevelCell(sheet, sheet.data[r])) : r \in 2..Len(sheet.data) } \ { -1 }

\* the rows of R have equal Medium cells
SameMedium(sheet, R) ==
  \A r1, r2 \in R :
    At(sheet.data[r1], indexOf(sheet.headers, Column.Medium))
      = At(sheet.data[r2], indexOf(sheet.headers, Column.Medium))

\* the errors of sheet i with the given rule that name the level v
LevelErrors(i, rule, v) ==
  { k \in ErrorsOfSheet(sheets[i].name) :
      errors[k].rule = rule /\ errors[k].message.n = << v >> }

\* C13: in Designation Mapping, with the data rows whose Hierarchical Level is
\* a non-negative integer grouped by that integer: a level of more than two
\* rows has exactly one DM-10 and no DM-11, a level of exactly two rows has
\* exactly one DM-11 iff the two rows have the same Medium (and no DM-10), a
\* level of one row has neither, and no other DM-10 or DM-11 is reported.
C13_LevelDuplicates ==
  Returned =>
    \A i \in 1..Len(sheets) :
      RuleSetRan(i, Sheet.Designation_Mapping) =>
        LET sheet == sheets[i]
        IN /\ \A v \in LevelsOf(sheet) :
                LET R == RowsOfLevel(sheet, v)
                IN /\ Cardinality(LevelErrors(i, "DM-10", v))
                        = (IF Cardinality(R) > 2 THEN 1 ELSE 0)
                   /\ Cardinality(LevelErrors(i, "DM-11", v))
                        = (IF Cardinality(R) = 2 /\ SameMedium(sheet, R) THEN 1 ELSE 0)
           /\ \A k \in ErrorsOfSheet(sheet.name) :
                errors[k].rule \in { "DM-10", "DM-11" } =>
                  /\ errors[k].severity = "error"
                  /\ \E v \in LevelsOf(sheet) : errors[k].message.n = << v >>

\* the cell is a text with leading or trailing white space
PaddedText(c) == c.t = "str" /\ HasOuterWhiteSpace(c.s)

\* the fields of a Designation Mapping row other than Hierarchical Level are
\* valid: State a text of English letters and spaces, Medium and
\* Medium_in_english present, List of Designations present and, as a text,
\* made of the allowed characters, and no cell with outer white space
OtherFieldsValid(sheet, row) ==
  LET Cell(col) == At(row, indexOf(sheet.headers, col))
      Text(col) == cellText(row, indexOf(sheet.headers, col))
  IN /\ Cell(Column.State).t = "str"
     /\ Len(Text(Column.State)) > 0
     /\ matchesEnglishLetters(Text(Column.State))
     /\ Len(Text(Column.Medium)) > 0
     /\ Len(Text(Column.Medium_in_english)) > 0
     /\ Len(Text(Column.List_of_Designations)) > 0
     /\ Cell(Column.List_of_Designations).t = "str"
           => matchesAlphanumeric(Text(Column.List_of_Designations))
     /\ \A c \in 1..Len(row) : c # indexOf(sheet.headers, Column.Hierarchical_Level) + 1
           => ~PaddedText(row[c])

\* the header row is exactly the five required columns
FiveRequiredHeaders(sheet) ==
  /\ Len(sheet.headers) = 5
  /\ \A c \in 1..Len(DM_requiredColumns) : includes(sheet.headers, DM_requiredColumns[c])

\* the errors of sheet i on its row r
RowErrors(i, r) == { k \in ErrorsOfSheet(sheets[i].name) : errors[k].row = r }

\* C14: a Designation Mapping sheet with exactly the five required headers
\* whose data rows are valid in every field (no level held by two rows) has
\* no violation; on a row valid in all other fields a Hierarchical Level that
\* is absent (no cell, or an empty or white-space-only text) has exactly one
\* violation, a DM-08, one that is present and not a non-negative integer has
\* exactly one, a DM-09, and a non-negative integer has none.
C14_HierarchicalLevel ==
  Returned =>
    \A i \in 1..Len(sheets) :
      (RuleSetRan(i, Sheet.Designation_Mapping) /\ FiveRequiredHeaders(sheets[i])) =>
        LET sheet == sheets[i]
            rows == 2..Len(sheet.data)
        IN /\ ( /\ \A r \in rows : OtherFieldsValid(sheet, sheet.data[r])
                /\ \A r \in rows : LevelValue(LevelCell(sheet, sheet.data[r])) >= 0
                /\ \A v \in LevelsOf(sheet) : Cardinality(RowsOfLevel(sheet, v)) = 1 )
                => ErrorsOfSheet(sheet.name) = {}
           /\ \A r \in rows :
                OtherFieldsValid(sheet, sheet.data[r]) =>
                  LET c == LevelCell(sheet, sheet.data[r])
                      Rules == { errors[k].rule : k \in RowErrors(i, r) }
                  IN /\ Cardinality(RowErrors(i, r)) = (IF LevelValue(c) >= 0 THEN 0 ELSE 1)
                     /\ Len(cellText(sheet.data[r], indexOf(sheet.headers, Column.Hierarchical_Level))) = 0
                          => Rules = { "DM-08" }
                     /\ ( /\ Len(cellText(sheet.data[r], indexOf(sheet.headers, Column.Hierarchical_Level))) > 0
                          /\ LevelValue(c) < 0 )
                          => Rules = { "DM-09" }

\* the errors of sheet i on its row r with the given rule
RowRuleErrors(i, r, rule) == { k \in RowErrors(i, r) : errors[k].rule = rule }

\* the Mobile of a row as a trimmed string, empty when the row has none
MobileOf(sheet, row) == cellText(row, indexOf(sheet.headers, Column.Mobile))

\* the State of a row as a trimmed string, empty when the row has none
StateOf(sheet, row) == cellText(row, indexOf(sheet.headers, Column.State))

\* C15: in an Access Sheet with a Mobile column, a row whose Mobile is present
\* and does not match ^[6-9]\d{9}$ has exactly one AS-12 error and a row whose
\* Mobile matches has none; a row has an AS-13 error (exactly one) exactly
\* when its Mobile matches and an earlier row has the same State and the same
\* Mobile; no row has both AS-12 and AS-13.
C15_Mobile ==
  Returned =>
    \A i \in 1..Len(sheets) :
      (RuleSetRan(i, Sheet.Access_Sheet) /\ includes(sheets[i].headers, Column.Mobile)) =>
        \A r \in 2..Len(sheets[i].data) :
          LET sheet == sheets[i]
              mobile == MobileOf(sheet, sheet.data[r])
              as12 == Cardinality(RowRuleErrors(i, r, "AS-12"))
              as13 == Cardinality(RowRuleErrors(i, r, "AS-13"))
              repeated == \E q \in 2..(r - 1) :
                            /\ MobileOf(sheet, sheet.data[q]) = mobile
                            /\ StateOf(sheet, sheet.data[q]) = StateOf(sheet, sheet.data[r])
          IN /\ (Len(mobile) > 0 /\ ~matchesMobile(mobile)) => as12 = 1
             /\ matchesMobile(mobile) => as12 = 0
             /\ as13 = (IF matchesMobile(mobile) /\ repeated THEN 1 ELSE 0)
             /\ ~(as12 > 0 /\ as13 > 0)

\* the rule codes reported as warnings
WarningRules == { "AS-04", "AS-14" }

\* the returned violations with the given severity
WithSeverity(severity) == { k \in 1..Len(errors) : errors[k].severity = severity }

\* C16: a returned violation has severity warning exactly when its rule is
\* AS-04 or AS-14 and severity error otherwise; totalErrors counts the
\* violations of the other rules only, so when every returned violation is a
\* warning totalErrors is 0 and the parsed file is valid
C16_WarningsDoNotInvalidate ==
  Returned =>
    /\ \A k \in 1..Len(errors) :
         /\ errors[k].severity \in { "error", "warning" }
         /\ errors[k].severity = "warning" <=> errors[k].rule \in WarningRules
    /\ summary.totalErrors
         = Cardinality({ k \in 1..Len(errors) : errors[k].rule \notin WarningRules })
    /\ summary.totalWarnings
         = Cardinality({ k \in 1..Len(errors) : errors[k].rule \in WarningRules })
    /\ (WithSeverity("warning") = 1..Len(errors)) =>
         /\ summary.totalErrors = 0
         /\ isValid([errors |-> errors, summary |-> summary])

\* a document of four valid sheets whose only violations are both kinds of
\* warning has been validated and is valid
C16_Witness ==
  /\ Returned
  /\ RuleCount("AS-04") > 0
  /\ RuleCount("AS-14") > 0
  /\ WithSeverity("warning") = 1..Len(errors)
  /\ isValid([errors |-> errors, summary |-> summary])

\* C17: no two violations returned by one call have the same id, whatever
\* the names of the sheets of the document
C17_UniqueIds ==
  Returned =>
    \A k, l \in 1..Len(errors) : errors[k].id = errors[l].id => k = l

\* sheet i has an unexpected name, data and a non-empty header row
UnexpectedWithHeaders(i) ==
  /\ \A e \in 1..Len(expectedSheets) : trim(sheets[i].name) # expectedSheets[e]
  /\ Len(sheets[i].data) > 0
  /\ Len(sheets[i].headers) > 0

\* the returned SHEET_STRUCTURE_002 violations that name the given sheet name
UnexpectedErrors(name) ==
  { k \in 1..Len(errors) :
      /\ errors[k].rule = "SHEET_STRUCTURE_002"
      /\ errors[k].id = Tmpl("unexpected-sheet-${sheet.name}", << >>, << name >>) }

\* C18: a sheet with an unexpected name, data and a non-empty header row
\* contributes its SHEET_STRUCTURE_002 violation and nothing else: there is
\* one such violation per sheet of that name, and no violation carries the
\* sheet's name unless it is the SHEET_EMPTY_001 or HEADERS_001 violation of
\* another sheet of the same name
C18_UnexpectedSheet ==
  Returned =>
    \A i \in 1..Len(sheets) :
      UnexpectedWithHeaders(i) =>
        LET name == sheets[i].name
            same == { j \in 1..Len(sheets) : sheets[j].name = name }
            own  == ErrorsOfSheet(name)
        IN /\ Cardinality(UnexpectedErrors(name)) = Cardinality(same)
           /\ \A k \in UnexpectedErrors(name) :
                errors[k].severity = "error" /\ errors[k].row = 0
           /\ Cardinality(own)
                = Cardinality({ j \in same : ~UnexpectedWithHeaders(j) })
           /\ \A k \in own : errors[k].rule \in { "SHEET_EMPTY_001", "HEADERS_001" }

\* a sheet with an unexpected name, a header row and a data row with a cell
\* that has outer whitespace has been validated
C18_Witness ==
  /\ Returned
  /\ \E i \in 1..Len(sheets) :
       /\ UnexpectedWithHeaders(i)
       /\ Len(sheets[i].data) > 1
       /\ \E c \in 1..Len(sheets[i].data[2]) :
            /\ sheets[i].data[2][c].t = "str"
            /\ HasOuterWhiteSpace(sheets[i].data[2][c].s)
       /\ Cardinality(UnexpectedErrors(sheets[i].name)) = 1

\* the mandatory-presence rules: the rule set, the rule code and the column
MandatoryRules ==
  { [sheet |-> Sheet.Designation_Mapping, rule |-> "DM-02", column |-> Column.State],
    [sheet |-> Sheet.Designation_Mapping, rule |-> "DM-04", column |-> Column.Medium],
    [sheet |-> Sheet.Designation_Mapping, rule |-> "DM-05", column |-> Column.Medium_in_english],
    [sheet |-> Sheet.Designation_Mapping, rule |-> "DM-06", column |-> Column.List_of_Designations],
    [sheet |-> Sheet.Survey_Master, rule |-> "SM-01", column |-> Column.Survey_ID],
    [sheet |-> Sheet.Survey_Master, rule |-> "SM-04", column |-> Column.Survey_Name],
    [sheet |-> Sheet.Survey_Master, rule |-> "SM-08", column |-> Column.Launch_Date],
    [sheet |-> Sheet.Question_Master, rule |-> "QM-01", column |-> Column.Survey_ID],
    [sheet |-> Sheet.Question_Master, rule |-> "QM-02", column |-> Column.Medium],
    [sheet |-> Sheet.Question_Master, rule |-> "QM-03", column |-> Column.Medium_in_english],
    [sheet |-> Sheet.Question_Master, rule |-> "QM-04", column |-> Column.Question_ID],
    [sheet |-> Sheet.Question_Master, rule |-> "QM-07", column |-> Column.Question_Type],
    [sheet |-> Sheet.Question_Master, rule |-> "QM-16", column |-> Column.Question_Media_Type],
    [sheet |-> Sheet.Access_Sheet, rule |-> "AS-01", column |-> Column.Designation],
    [sheet |-> Sheet.Access_Sheet, rule |-> "AS-02", column |-> Column.Hierarchical_Level],
    [sheet |-> Sheet.Access_Sheet, rule |-> "AS-05", column |-> Column.State],
    [sheet |-> Sheet.Access_Sheet, rule |-> "AS-06", column |-> Column.Name],
    [sheet |-> Sheet.Access_Sheet, rule |-> "AS-08", column |-> Column.User_ID],
    [sheet |-> Sheet.Access_Sheet, rule |-> "AS-10", column |-> Column.Status] }

\* the cell is absent, or a text that is empty once trimmed
MissingCell(c) == c.t = "absent" \/ (c.t = "str" /\ trim(c.s) = << >>)

\* the rows of sheet i reach the check of the mandatory rule m
MandatoryChecked(i, m) ==
  /\ trim(sheets[i].name) = m.sheet
  /\ UniqueName(i)
  /\ includes(sheets[i].headers, m.column)
  /\ m.sheet = Sheet.Designation_Mapping => FiveRequiredHeaders(sheets[i])

\* C19: in each of the four rule sets a data row has exactly one violation of
\* a mandatory-presence rule when the cell of the rule's column is absent,
\* empty or white space only, and none when it holds anything else, a number
\* (0 included) counting as present
C19_MandatoryPresence ==
  Returned =>
    \A i \in 1..Len(sheets) : \A m \in MandatoryRules :
      MandatoryChecked(i, m) =>
        \A r \in 2..Len(sheets[i].data) :
          Cardinality(RowRuleErrors(i, r, m.rule))
            = IF MissingCell(At(sheets[i].data[r], indexOf(sheets[i].headers, m.column)))
              THEN 1 ELSE 0

\* the sheets of the document with the given trimmed name
SheetsNamed(name) == { i \in 1..Len(sheets) : trim(sheets[i].name) = name }

\* the trimmed text of the row's cell in the named column
TextOf(sheet, row, column) == cellText(row, indexOf(sheet.headers, column))

\* the texts that data rows of the sheets with the given name hold in the column
TextsIn(name, column) ==
  UNION { { TextOf(sheets[i], sheets[i].data[r], column) : r \in 2..Len(sheets[i].data) } :
          i \in SheetsNamed(name) }

\* a data row of a Designation Mapping sheet has the designation, level and
\* state of the Access Sheet row
MatchesDesignationMapping(sheet, row) ==
  \E i \in SheetsNamed(Sheet.Designation_Mapping) : \E r \in 2..Len(sheets[i].data) :
    /\ TextOf(sheets[i], sheets[i].data[r], Column.List_of_Designations)
         = TextOf(sheet, row, Column.Designation)
    /\ TextOf(sheets[i], sheets[i].data[r], Column.Hierarchical_Level)
         = TextOf(sheet, row, Column.Hierarchical_Level)
    /\ TextOf(sheets[i], sheets[i].data[r], Column.State)
         = TextOf(sheet, row, Column.State)

\* C20: in a document that has the referenced sheet, a Question Master row
\* whose Survey ID no Survey Master row has, and an Access Sheet row whose
\* Designation, Hierarchical Level and State no Designation Mapping row has,
\* carries at least one violation
C20_CrossSheetIntegrity ==
  Returned =>
    /\ \A q \in SheetsNamed(Sheet.Question_Master) :
         \A r \in 2..Len(sheets[q].data) :
           ( /\ UniqueName(q)
             /\ SheetsNamed(Sheet.Survey_Master) # {}
             /\ TextOf(sheets[q], sheets[q].data[r], Column.Survey_ID)
                  \notin TextsIn(Sheet.Survey_Master, Column.Survey_ID) )
           => RowErrors(q, r) # {}
    /\ \A a \in SheetsNamed(Sheet.Access_Sheet) :
         \A r \in 2..Len(sheets[a].data) :
           ( /\ UniqueName(a)
             /\ SheetsNamed(Sheet.Designation_Mapping) # {}
             /\ ~MatchesDesignationMapping(sheets[a], sheets[a].data[r]) )
           => RowErrors(a, r) # {}

-----------------------------------------------------------------------------
(* Properties of the upload component and of the order and place of the     *)
(* violations.                                                               *)

\* decoding the file fails: the FileReader cannot read it or the parser throws
DecodingFails(file) == ~file.readable \/ file.malformed

\* the parse of the selected file has settled
Settled == uploadState.file # Null /\ ~uploadState.isProcessing

\* C21: a failure to decode and the violations found by the engine are kept
\* apart. Once the parse of the selected file has settled: if decoding the
\* file fails the component holds an error, is not processing and holds no
\* ParsedFile (no violation, no summary); if it succeeds the component holds
\* no error and a ParsedFile with the decoded sheets, the violations the
\* engine returns for them, their summary, and isValid true exactly when no
\* violation has severity error.
C21_ErrorTiers ==
  Settled =>
    LET file == uploadState.file[1]
    IN IF DecodingFails(file)
       THEN /\ uploadState.error # Null
            /\ uploadState.parsedData = Null
       ELSE /\ uploadState.error = Null
            /\ uploadState.parsedData # Null
            /\ LET parsedData == uploadState.parsedData[1]
               IN /\ parsedData.fileName = file.name
                  /\ parsedData.sheets = decodedSheets(file)
                  /\ StripIds(parsedData.validationErrors)
                       = StripIds(validateFMBDumpSheetErrors(parsedData.sheets, << 0, 0 >>))
                  /\ parsedData.validationSummary
                       = validateFMBDumpSheetSummary(parsedData.validationErrors)
                  /\ parsedData.isValid
                       <=> \A k \in 1..Len(parsedData.validationErrors) :
                             parsedData.validationErrors[k].severity # "error"

\* the parse of a readable workbook whose decoding throws has settled with
\* an error
C21_Witness ==
  /\ Settled
  /\ uploadState.file[1].readable
  /\ uploadState.file[1].malformed
  /\ uploadState.error # Null

\* the part of the list a violation belongs to: the sheet count, the missing
\* sheets, the unexpected sheets, the sheets themselves
Phase(e) ==
  CASE e.rule = "SHEET_COUNT_001" -> 0
    [] e.rule = "SHEET_STRUCTURE_001" -> 1
    [] e.rule = "SHEET_STRUCTURE_002" -> 2
    [] OTHER -> 3

\* the place of a violation among the violations of its sheet: header-level
\* violations, then the rows in ascending order, then the level duplicates
PlaceInSheet(e) ==
  IF e.rule \in { "DM-10", "DM-11" } THEN MaxRows + 3 ELSE e.row

\* the position of the name in the list of expected sheets
ExpectedIndex(name) == CHOOSE i \in 1..Len(expectedSheets) : expectedSheets[i] = name

\* the names of the document's sheets, in document order
SheetNames == [i \in 1..Len(sheets) |-> sheets[i].name]

\* the name is not an expected sheet name once trimmed
IsUnexpectedName(name) == \A i \in 1..Len(expectedSheets) : trim(name) # expectedSheets[i]

\* the returned violations of the given phase, in the order of the list
InPhase(p) == SelectSeq(errors, LAMBDA e : Phase(e) = p)

RECURSIVE InSheetOrder(_, _)
\* the names (one per violation) are made of one block per sheet, possibly
\* empty, in the order of the sheets
InSheetOrder(names, sheetNames) ==
  IF names = << >> THEN TRUE
  ELSE IF sheetNames = << >> THEN FALSE
  ELSE IF Head(names) = Head(sheetNames) THEN InSheetOrder(Tail(names), sheetNames)
  ELSE InSheetOrder(names, Tail(sheetNames))

\* C22: the returned list holds the sheet-count violation first, then the
\* missing-sheet violations in the order of the expected names, then the
\* unexpected-sheet violations in document order, then the violations of the
\* sheets in document order; within a sheet the header-level violations come
\* first, then the row violations in ascending row order, then the
\* level-duplicate violations of Designation Mapping
C22_Ordering ==
  Returned =>
    /\ \A k, l \in 1..Len(errors) : k < l => Phase(errors[k]) <= Phase(errors[l])
    /\ \A k, l \in 1..Len(InPhase(1)) :
         k < l => ExpectedIndex(InPhase(1)[k].id.s[1]) < ExpectedIndex(InPhase(1)[l].id.s[1])
    /\ [k \in 1..Len(InPhase(2)) |-> InPhase(2)[k].id.s[1]]
         = SelectSeq(SheetNames, IsUnexpectedName)
    /\ InSheetOrder([k \in 1..Len(InPhase(3)) |-> InPhase(3)[k].sheet], SheetNames)
    /\ \A i \in 1..Len(sheets) :
         UniqueName(i) =>
           \A k, l \in ErrorsOfSheet(sheets[i].name) :
             k < l => PlaceInSheet(errors[k]) <= PlaceInSheet(errors[l])

\* a Designation Mapping sheet has been validated with structural
\* violations, a header-level violation, violations on two rows and a
\* level-duplicate violation
C22_Witness ==
  /\ Returned
  /\ RuleCount("SHEET_STRUCTURE_001") > 0
  /\ \E k, l, m, n \in 1..Len(errors) :
       /\ errors[k].row = 1 /\ Phase(errors[k]) = 3
       /\ errors[l].row = 2 /\ errors[l].sheet = errors[k].sheet
       /\ errors[m].row = 3 /\ errors[m].sheet = errors[k].sheet
       /\ errors[n].rule \in { "DM-10", "DM-11" } /\ errors[n].sheet = errors[k].sheet

\* the errors of sheet i with the given rule
SheetRuleErrors(i, rule) == { k \in ErrorsOfSheet(sheets[i].name) : errors[k].rule = rule }

\* some required column of Designation Mapping is not in the header row
LacksRequiredColumn(sheet) ==
  \E c \in 1..Len(DM_requiredColumns) : ~includes(sheet.headers, DM_requiredColumns[c])

\* C23: a Designation Mapping sheet with data has exactly one DM-00
\* violation, on row 1, when its header row has not exactly 5 columns and none
\* otherwise, and exactly one DM-01 violation when a required column is
\* missing and none otherwise, each whatever the other check finds
C23_ColumnCount ==
  Returned =>
    \A i \in 1..Len(sheets) :
      RuleSetRan(i, Sheet.Designation_Mapping) =>
        /\ Cardinality(SheetRuleErrors(i, "DM-00"))
             = IF Len(sheets[i].headers) # 5 THEN 1 ELSE 0
        /\ \A k \in SheetRuleErrors(i, "DM-00") : errors[k].row = 1
        /\ Cardinality(SheetRuleErrors(i, "DM-01"))
             = IF LacksRequiredColumn(sheets[i]) THEN 1 ELSE 0

\* a header row of six columns with the five required names: DM-00 alone
SixColumnsAllRequired(i) ==
  /\ RuleSetRan(i, Sheet.Designation_Mapping)
  /\ Len(sheets[i].headers) = 6
  /\ ~LacksRequiredColumn(sheets[i])
  /\ SheetRuleErrors(i, "DM-00") # {}
  /\ SheetRuleErrors(i, "DM-01") = {}

\* a header row of five columns that lacks a required name: DM-01 alone
FiveColumnsOneMissing(i) ==
  /\ RuleSetRan(i, Sheet.Designation_Mapping)
  /\ Len(sheets[i].headers) = 5
  /\ LacksRequiredColumn(sheets[i])
  /\ SheetRuleErrors(i, "DM-00") = {}
  /\ SheetRuleErrors(i, "DM-01") # {}

\* a Designation Mapping sheet with five columns, one required name missing,
\* has been validated
C23_Witness ==
  Returned /\ \E i \in 1..Len(sheets) : FiveColumnsOneMissing(i)

\* a Designation Mapping sheet with six columns, no required name missing,
\* has been validated
C23_WitnessSix ==
  Returned /\ \E i \in 1..Len(sheets) : SixColumnsAllRequired(i)

\* the three Tabular question types
TabularQuestionTypes ==
  { Value.Tabular_Text_Input, Value.Tabular_Drop_Down, Value.Tabular_Check_Box }

\* C24: in a Question Master sheet with the columns Table_Header_value and
\* Question Type, a data row has a QM-13 violation (exactly one) exactly when
\* its Question Type is a Tabular type and its Table_Header_value is blank,
\* and a QM-14 violation (exactly one) exactly when its Question Type is not
\* a Tabular type and its Table_Header_value is not blank; no row has both
C24_TableHeader ==
  Returned =>
    \A i \in 1..Len(sheets) :
      ( /\ RuleSetRan(i, Sheet.Question_Master)
        /\ includes(sheets[i].headers, Column.Table_Header_value)
        /\ includes(sheets[i].headers, Column.Question_Type) ) =>
        \A r \in 2..Len(sheets[i].data) :
          LET tabular == TextOf(sheets[i], sheets[i].data[r], Column.Question_Type)
                           \in TabularQuestionTypes
              blank == TextOf(sheets[i], sheets[i].data[r], Column.Table_Header_value) = << >>
          IN /\ Cardinality(RowRuleErrors(i, r, "QM-13")) = IF tabular /\ blank THEN 1 ELSE 0
             /\ Cardinality(RowRuleErrors(i, r, "QM-14")) = IF ~tabular /\ ~blank THEN 1 ELSE 0
             /\ RowRuleErrors(i, r, "QM-13") = {} \/ RowRuleErrors(i, r, "QM-14") = {}

\* a Question Master sheet has been validated in which one row has a QM-13
\* violation and another, with a Question Type that is no valid type, a QM-14
C24_Witness ==
  /\ Returned
  /\ \E i \in 1..Len(sheets) :
       /\ RuleSetRan(i, Sheet.Question_Master)
       /\ \E r, q \in 2..Len(sheets[i].data) :
            /\ RowRuleErrors(i, r, "QM-13") # {}
            /\ RowRuleErrors(i, q, "QM-14") # {}
            /\ RowRuleErrors(i, q, "QM-08") # {}

\* the header row has none of the columns the Question Master rules name
NoNamedColumn(sheet) ==
  \A c \in 1..Len(QM_headers) : ~includes(sheet.headers, QM_headers[c].s)

\* C25: a Question Master sheet has no header-level violation; every
\* violation of it other than U-01 is on a data row and names a column of the
\* header row; a sheet whose header row has none of the named columns has no
\* violation other than U-01
C25_NoRequiredColumns ==
  Returned =>
    \A i \in 1..Len(sheets) :
      RuleSetRan(i, Sheet.Question_Master) =>
        /\ \A k \in ErrorsOfSheet(sheets[i].name) :
             /\ errors[k].row >= 2
             /\ errors[k].rule # "U-01" => includes(sheets[i].headers, errors[k].column.s)
        /\ NoNamedColumn(sheets[i]) =>
             \A k \in ErrorsOfSheet(sheets[i].name) : errors[k].rule = "U-01"

\* a Question Master sheet without any named column and with a data row that
\* has a cell with outer white space has been validated
C25_Witness ==
  /\ Returned
  /\ \E i \in 1..Len(sheets) :
       /\ RuleSetRan(i, Sheet.Question_Master)
       /\ NoNamedColumn(sheets[i])
       /\ Len(sheets[i].headers) > 0
       /\ Len(sheets[i].data) > 1
       /\ SheetRuleErrors(i, "U-01") # {}

\* the rule sets with a list of required columns
RequiredColumnSheets == { Sheet.Designation_Mapping, Sheet.Survey_Master, Sheet.Access_Sheet }

\* C26: in Designation Mapping, Survey Master and Access Sheet no violation
\* on a data row names a column that the header row does not contain
C26_AbsentColumn ==
  Returned =>
    \A i \in 1..Len(sheets) :
      (UniqueName(i) /\ trim(sheets[i].name) \in RequiredColumnSheets) =>
        \A k \in ErrorsOfSheet(sheets[i].name) :
          (errors[k].row >= 2 /\ errors[k].column.t = "str")
            => includes(sheets[i].headers, errors[k].column.s)

\* the fields with a rule code for a missing value and one for a malformed
\* value
MissingMalformedRules ==
  { << "DM-02", "DM-03" >>, << "DM-06", "DM-07" >>, << "DM-08", "DM-09" >>,
    << "AS-02", "AS-03" >>, << "SM-01", "SM-03" >>, << "SM-08", "SM-09" >>,
    << "QM-04", "QM-06" >>, << "QM-07", "QM-08" >>, << "QM-16", "QM-17" >>,
    << "AS-06", "AS-07" >>, << "AS-10", "AS-11" >> }

\* C27: a data row has at most one violation of the two rule codes of a
\* field, the missing one and the malformed one
C27_MissingOrMalformed ==
  Returned =>
    \A i \in 1..Len(sheets) :
      UniqueName(i) =>
        \A r \in 2..Len(sheets[i].data) : \A p \in MissingMalformedRules :
          Cardinality(RowRuleErrors(i, r, p[1])) + Cardinality(RowRuleErrors(i, r, p[2])) <= 1

\* an Access Sheet has been validated in which one row has the missing code
\* of Status and of Name and another row the malformed codes
C27_Witness ==
  /\ Returned
  /\ \E i \in 1..Len(sheets) :
       /\ UniqueName(i)
       /\ \E r, q \in 2..Len(sheets[i].data) :
            /\ RowRuleErrors(i, r, "AS-10") # {}
            /\ RowRuleErrors(i, r, "AS-06") # {}
            /\ RowRuleErrors(i, q, "AS-11") # {}
            /\ RowRuleErrors(i, q, "AS-07") # {}

\* C28: every returned violation has a place: its sheet is "File Structure",
\* with row 0, or the name of a sheet of the document that has the row, the
\* row being 0, 1 (the header row) or the number index + 2 of a data row, at
\* most the number of data rows plus 1; and a violation found on a data row
\* carries that row's number: outside Designation Mapping a data row has a
\* violation of a mandatory-presence rule on its own number exactly when its
\* cell is missing
C28_Located ==
  Returned =>
    /\ \A k \in 1..Len(errors) :
         \/ errors[k].sheet = Sheet.File_Structure /\ errors[k].row = 0
         \/ \E i \in 1..Len(sheets) :
              /\ sheets[i].name = errors[k].sheet
              /\ errors[k].row \in 0..Len(sheets[i].data)
    /\ \A i \in 1..Len(sheets) : \A m \in MandatoryRules :
         (MandatoryChecked(i, m) /\ m.sheet # Sheet.Designation_Mapping) =>
           \A r \in 2..Len(sheets[i].data) :
             RowRuleErrors(i, r, m.rule) # {}
               <=> MissingCell(At(sheets[i].data[r], indexOf(sheets[i].headers, m.column)))

\* a sheet with two data rows has been validated with a violation on its last
\* row and none of that rule on the row before
C28_Witness ==
  /\ Returned
  /\ \E i \in 1..Len(sheets) : \E m \in MandatoryRules :
       /\ MandatoryChecked(i, m)
       /\ m.sheet # Sheet.Designation_Mapping
       /\ Len(sheets[i].data) = 3
       /\ RowRuleErrors(i, 3, m.rule) # {}
       /\ RowRuleErrors(i, 2, m.rule) = {}

\* the number of violations of a rule among the violations of a ParsedFile
ParsedRuleCount(parsedData, rule) ==
  Cardinality({ k \in 1..Len(parsedData.validationErrors) :
                  parsedData.validationErrors[k].rule = rule })

\* the selected file is a .csv file and its parse has resolved
CsvParsed ==
  /\ Settled
  /\ endsWith(uploadState.file[1].name, << ".", "c", "s", "v" >>)
  /\ uploadState.parsedData # Null

C29_WitnessEmpty ==
  /\ CsvParsed
  /\ uploadState.file[1].csv = << >>

\* how many of the three views' conditions hold: processing, a ParsedFile, an
\* error
ViewsHeld ==
  (IF uploadState.isProcessing THEN 1 ELSE 0)
    + (IF uploadState.parsedData # Null THEN 1 ELSE 0)
    + (IF uploadState.error # Null THEN 1 ELSE 0)

\* at most one of processing, ParsedFile and error holds; a parse is in
\* flight exactly while the component is processing, there is at most one,
\* and it is the parse of the selected file
OneViewOneParse ==
  /\ ViewsHeld <= 1
  /\ Cardinality(pending) <= 1
  /\ (pending # {}) <=> uploadState.isProcessing
  /\ uploadState.isProcessing => pending = { uploadState.file[1] }

\* a step that starts a parse starts from a state that is neither processing
\* nor showing a ParsedFile
SelectionOnlyWhenIdle ==
  (pending' \ pending # {}) =>
    ~uploadState.isProcessing /\ uploadState.parsedData = Null

\* a step that changes the ParsedFile or the error either settles the one
\* parse in flight, the parse of the selected file, or clears the field
NoStaleResult ==
  /\ (uploadState'.parsedData # uploadState.parsedData /\ uploadState'.parsedData # Null) =>
       /\ pending = { uploadState.file[1] }
       /\ pending' = {}
       /\ uploadState'.file = uploadState.file
       /\ uploadState'.parsedData[1].fileName = uploadState.file[1].name
       /\ uploadState'.parsedData[1].sheets = decodedSheets(uploadState.file[1])
  /\ (uploadState'.error # uploadState.error /\ uploadState'.error # Null) =>
       /\ pending = { uploadState.file[1] }
       /\ pending' = {}
       /\ uploadState'.file = uploadState.file

\* a step that leaves the dashboard ends in the initial state
ResetToInitial ==
  (uploadState.parsedData # Null /\ uploadState' # uploadState) =>
    uploadState' = InitialState

\* C30: in the upload component, after any sequence of selections, parse
\* completions, parse failures and resets, at most one of isProcessing,
\* parsedData non-null and error non-null holds; a selection starts only when
\* the component is neither processing nor showing a ParsedFile, so at most
\* one parse is in flight and a result is stored only for the selected file's
\* parse; a reset returns to the initial state
C30_UploadStateMachine ==
  /\ []OneViewOneParse
  /\ [][SelectionOnlyWhenIdle /\ NoStaleResult /\ ResetToInitial]_vars

\* a parse has completed and the dashboard is shown with nothing in flight
C30_Witness ==
  /\ dashboardShown
  /\ pending = {}
  /\ uploadState.error = Null

\* a parse is in flight
C30_WitnessInFlight == uploadState.isProcessing /\ pending # {}

\* a parse has failed and the drop zone is shown with the error
C30_WitnessFailed == dropzoneShown /\ uploadState.error # Null /\ pending = {}
=============================================================================
